---- MODULE Spec2Model ----
(***************************************************************************)
(* Attribute dispatcher of the class-file parser (src/src/attributes.rs).  *)
(*                                                                         *)
(* read_attributes, read_code_data and read_record_data call each other    *)
(* recursively; they are modelled as a state machine with an explicit call *)
(* stack, one action per step of their bodies.  The other decoders are     *)
(* straight-line or loop code over the cursor; each is an operator that    *)
(* takes the buffer and the cursor and yields a Result carrying the new    *)
(* cursor, the value or the error.                                         *)
(*                                                                         *)
(* A cursor value ix is the 0-based index of the next byte, as in the      *)
(* source; the buffer is a TLA+ sequence, so byte ix is bytes[ix + 1].     *)
(***************************************************************************)
EXTENDS Integers, Sequences, FiniteSets, TLC

VARIABLES
    bytes,      \* the borrowed input slice
    opts,       \* ParseOptions
    ix,         \* the cursor (*ix)
    stack,      \* call stack of read_attributes / read_code_data / read_record_data
    ret,        \* the Result handed from a returning call to its caller
    log,        \* history: what the dispatcher has done so far, oldest first
    steps       \* history: number of steps taken so far

vars == <<bytes, opts, ix, stack, ret, log, steps>>

(***************************************************************************)
(* Bounds of the model.                                                    *)
(***************************************************************************)
MaxAttributes == 2   \* attributes per list in the framing inputs
MaxOther == 3        \* payload bytes of an unrecognized attribute
MaxPath == 1         \* elements of a type annotation's target path
MaxArray == 2        \* element values of an array element value

(***************************************************************************)
(* Result<T, ParseError>, fail! and err!.                                  *)
(* An error is a head message and the context frames added while it        *)
(* propagates, innermost first.  A message or a frame is the format string *)
(* followed by its arguments.                                              *)
(***************************************************************************)
Nothing == [tag |-> "none"]

Ok(i, v) == [ok |-> TRUE, ix |-> i, val |-> v, err |-> Nothing]

ParseError(msg, ctx) == [tag |-> "ParseError", msg |-> msg, ctx |-> ctx]

Fail(i, msg) == [ok |-> FALSE, ix |-> i, val |-> Nothing, err |-> ParseError(msg, <<>>)]

FailCtx(i, msg, c) == [ok |-> FALSE, ix |-> i, val |-> Nothing, err |-> ParseError(msg, <<c>>)]

MapErr(r, c) == IF r.ok THEN r ELSE [r EXCEPT !.err.ctx = Append(@, c)]

\* The error kinds of the specification, by the message the code fails with.
ErrorKind(e) ==
    CASE e.msg[1] \in {"Unexpected end of stream reading u1 at index {}",
                       "Unexpected end of stream reading u2 at index {}",
                       "Unexpected end of stream reading u4 at index {}",
                       "Unexpected end of stream reading attributes at index {}",
                       "Unexpected end of stream reading code attribute at index {}"} ->
           "UnexpectedEnd"
      [] e.msg[1] \in {"Unexpected length {}", "Length mismatch when reading attribute {}"} ->
           "LengthMismatch"
      [] e.msg[1] \in {"Unrecognized discriminant {}", "Unrecognized verification type {}",
                       "Unrecognized target type {}", "Unrecognized path kind {}"} ->
           "UnrecognizedDiscriminant"
      [] e.msg[1] \in {"Invalid constant pool index {}",
                       "Constant pool index {} is the second slot of a long or double"} ->
           "BadPoolIndex"
      [] e.msg[1] = "Unexpected constant pool reference type" -> "PoolKindMismatch"
      [] OTHER -> "Other"

(***************************************************************************)
(* Byte cursor.                                                            *)
(***************************************************************************)
read_u1(b, i) ==
    IF Len(b) < i + 1
    THEN Fail(i, <<"Unexpected end of stream reading u1 at index {}", i>>)
    ELSE Ok(i + 1, b[i + 1])

read_u2(b, i) ==
    IF Len(b) < i + 2
    THEN Fail(i, <<"Unexpected end of stream reading u2 at index {}", i>>)
    ELSE Ok(i + 2, b[i + 1] * 256 + b[i + 2])

read_u4(b, i) ==
    IF Len(b) < i + 4
    THEN Fail(i, <<"Unexpected end of stream reading u4 at index {}", i>>)
    ELSE Ok(i + 4, ((b[i + 1] * 256 + b[i + 2]) * 256 + b[i + 3]) * 256 + b[i + 4])

\* &bytes[from .. to], for from <= to <= bytes.len()
Slice(b, from, to) == SubSeq(b, from + 1, to)

(***************************************************************************)
(* Constant pool.  It is built before any attribute is read and is only    *)
(* consulted here.  Pool[k] is the resolved entry at index k; index 0 and  *)
(* indices above the last entry are invalid.  The pool holds every         *)
(* recognized attribute name, one unrecognized name, strings that pass and *)
(* fail each validator, and one entry of every other kind.                 *)
(***************************************************************************)
Utf8(s) == [kind |-> "Utf8", str |-> s]

Pool ==
    <<
       Utf8("ConstantValue"),                         \* 1
       Utf8("Code"),                                  \* 2
       Utf8("StackMapTable"),                         \* 3
       Utf8("Exceptions"),                            \* 4
       Utf8("InnerClasses"),                          \* 5
       Utf8("EnclosingMethod"),                       \* 6
       Utf8("Synthetic"),                             \* 7
       Utf8("Signature"),                             \* 8
       Utf8("SourceFile"),                            \* 9
       Utf8("SourceDebugExtension"),                  \* 10
       Utf8("LineNumberTable"),                       \* 11
       Utf8("LocalVariableTable"),                    \* 12
       Utf8("LocalVariableTypeTable"),                \* 13
       Utf8("Deprecated"),                            \* 14
       Utf8("RuntimeVisibleAnnotations"),             \* 15
       Utf8("RuntimeInvisibleAnnotations"),           \* 16
       Utf8("RuntimeVisibleParameterAnnotations"),    \* 17
       Utf8("RuntimeInvisibleParameterAnnotations"),  \* 18
       Utf8("RuntimeVisibleTypeAnnotations"),         \* 19
       Utf8("RuntimeInvisibleTypeAnnotations"),       \* 20
       Utf8("AnnotationDefault"),                     \* 21
       Utf8("BootstrapMethods"),                      \* 22
       Utf8("MethodParameters"),                      \* 23
       Utf8("Module"),                                \* 24
       Utf8("ModulePackages"),                        \* 25
       Utf8("ModuleMainClass"),                       \* 26
       Utf8("NestHost"),                              \* 27
       Utf8("NestMembers"),                           \* 28
       Utf8("Record"),                                \* 29
       Utf8("Foo"),  \* 30: not a recognized attribute name
       Utf8("I"),  \* 31: field descriptor
       Utf8("LA;"),  \* 32: field descriptor, not an unqualified name
       Utf8("V"),  \* 33: return descriptor only
       Utf8("x"),  \* 34: unqualified name, no descriptor
       Utf8("<init>"),  \* 35
       [kind |-> "Integer", value |-> 7],  \* 36
       [kind |-> "Float", value |-> "1.5"],  \* 37
       [kind |-> "Long", value |-> 8],  \* 38
       [kind |-> "Placeholder"],  \* 39
       [kind |-> "Double", value |-> "2.5"],  \* 40
       [kind |-> "Placeholder"],  \* 41
       [kind |-> "ClassInfo", name |-> "A"],  \* 42
       [kind |-> "String", value |-> "hi"],  \* 43
       [kind |-> "NameAndType", name |-> "x", descriptor |-> "I"],  \* 44
       [kind |-> "MethodHandle", handle |-> [ref_kind |-> 6, class_name |-> "A", name |-> "x", descriptor |-> "()V"]],  \* 45
       [kind |-> "MethodType", descriptor |-> "()V"],  \* 46
       [kind |-> "ModuleInfo", name |-> "m"],  \* 47
       [kind |-> "PackageInfo", name |-> "p"],  \* 48
       [kind |-> "Dynamic", bootstrap_index |-> 0, name |-> "x", descriptor |-> "I"]  \* 49
    >>

\* read_cp_ref_any: a u2 index, then the entry it names
read_cp_ref(b, i) ==
    LET entry(r) ==
            IF ~r.ok THEN r
            ELSE IF r.val = 0 \/ r.val > Len(Pool)
            THEN Fail(r.ix, <<"Invalid constant pool index {}", r.val>>)
            ELSE IF Pool[r.val].kind = "Placeholder"
            THEN Fail(r.ix, <<"Constant pool index {} is the second slot of a long or double",
                              r.val>>)
            ELSE Ok(r.ix, Pool[r.val])
    IN entry(read_u2(b, i))

\* what an accessor hands out for an entry: the string a Utf8, ClassInfo, ModuleInfo or
\* PackageInfo entry resolves to, the number of a primitive, the resolved pair or handle
Resolved(e) ==
    CASE e.kind = "Utf8" -> e.str
      [] e.kind \in {"ClassInfo", "ModuleInfo", "PackageInfo"} -> e.name
      [] e.kind \in {"Integer", "Float", "Long", "Double"} -> e.value
      [] e.kind = "NameAndType" -> [name |-> e.name, descriptor |-> e.descriptor]
      [] e.kind = "MethodHandle" -> e.handle
      [] OTHER -> e

\* an accessor that accepts exactly the entries of one kind
read_cp_kind(b, i, kind) ==
    LET typed(r) ==
            IF ~r.ok THEN r
            ELSE IF r.val.kind # kind
            THEN Fail(r.ix, <<"Unexpected constant pool reference type", kind, r.val.kind>>)
            ELSE Ok(r.ix, Resolved(r.val))
    IN typed(read_cp_ref(b, i))

\* Option<T>
Some(v) == [tag |-> "Some", value |-> v]

\* index 0 stands for an absent value
read_cp_opt(b, i, kind) ==
    LET some(e) == IF ~e.ok THEN e ELSE Ok(e.ix, Some(e.val))
        index(r) ==
            IF ~r.ok THEN r
            ELSE IF r.val = 0 THEN Ok(r.ix, Nothing)
            ELSE some(read_cp_kind(b, i, kind))
    IN index(read_u2(b, i))

read_cp_utf8(b, i) == read_cp_kind(b, i, "Utf8")
read_cp_utf8_opt(b, i) == read_cp_opt(b, i, "Utf8")
read_cp_classinfo(b, i) == read_cp_kind(b, i, "ClassInfo")
read_cp_classinfo_opt(b, i) == read_cp_opt(b, i, "ClassInfo")
read_cp_nameandtype_opt(b, i) == read_cp_opt(b, i, "NameAndType")
read_cp_integer(b, i) == read_cp_kind(b, i, "Integer")
read_cp_float(b, i) == read_cp_kind(b, i, "Float")
read_cp_long(b, i) == read_cp_kind(b, i, "Long")
read_cp_double(b, i) == read_cp_kind(b, i, "Double")
read_cp_methodhandle(b, i) == read_cp_kind(b, i, "MethodHandle")
read_cp_moduleinfo(b, i) == read_cp_kind(b, i, "ModuleInfo")
read_cp_packageinfo(b, i) == read_cp_kind(b, i, "PackageInfo")

LiteralKinds == {"Integer", "Float", "Long", "Double", "String"}

read_cp_literalconstant(b, i) ==
    LET literal(r) ==
            IF ~r.ok THEN r
            ELSE IF r.val.kind \notin LiteralKinds
            THEN Fail(r.ix, <<"Unexpected constant pool reference type", "literal", r.val.kind>>)
            ELSE Ok(r.ix, [tag |-> r.val.kind, value |-> r.val.value])
    IN literal(read_cp_ref(b, i))

BootstrapArgumentKinds == LiteralKinds \cup {"ClassInfo", "MethodHandle", "MethodType", "Dynamic"}

read_cp_bootstrap_argument(b, i) ==
    LET argument(r) ==
            IF ~r.ok THEN r
            ELSE IF r.val.kind \notin BootstrapArgumentKinds
            THEN Fail(r.ix, <<"Unexpected constant pool reference type", "bootstrap argument",
                              r.val.kind>>)
            ELSE Ok(r.ix, [tag |-> r.val.kind, entry |-> r.val])
    IN argument(read_cp_ref(b, i))

(***************************************************************************)
(* Name and descriptor validators.                                         *)
(***************************************************************************)
BaseTypes == {"B", "C", "D", "F", "I", "J", "S", "Z"}

RECURSIVE ClassNameEnd(_, _)
\* position of the ';' that ends the class name starting at p, or 0
ClassNameEnd(s, p) ==
    IF p > Len(s) THEN 0
    ELSE IF SubSeq(s, p, p) = ";" THEN p
    ELSE ClassNameEnd(s, p + 1)

RECURSIVE FieldTypeEnd(_, _)
\* position of the last character of the FieldType starting at p, or 0
FieldTypeEnd(s, p) ==
    IF p > Len(s) THEN 0
    ELSE LET c == SubSeq(s, p, p) IN
         IF c \in BaseTypes THEN p
         ELSE IF c = "[" THEN FieldTypeEnd(s, p + 1)
         ELSE IF c = "L"
              THEN LET e == ClassNameEnd(s, p + 1) IN IF e > p + 1 THEN e ELSE 0
         ELSE 0

is_field_descriptor(s) == Len(s) > 0 /\ FieldTypeEnd(s, 1) = Len(s)

is_return_descriptor(s) == s = "V" \/ is_field_descriptor(s)

is_unqualified_name(s, allow_init, allow_clinit) ==
    IF s = "<init>" THEN allow_init
    ELSE IF s = "<clinit>" THEN allow_clinit
    ELSE /\ Len(s) > 0
         /\ \A p \in 1..Len(s) : SubSeq(s, p, p) \notin {".", ";", "[", "/"}

(***************************************************************************)
(* Access flags (bitflags!).  A flag set is the set of its constants.      *)
(***************************************************************************)
ACC_PUBLIC == 1
ACC_PRIVATE == 2
ACC_PROTECTED == 4
ACC_STATIC == 8
ACC_FINAL == 16
ACC_OPEN == 32
ACC_TRANSITIVE == 32
ACC_STATIC_PHASE == 64
ACC_INTERFACE == 512
ACC_ABSTRACT == 1024
ACC_SYNTHETIC == 4096
ACC_ANNOTATION == 8192
ACC_ENUM == 16384
ACC_MANDATED == 32768

InnerClassAccessFlags ==
    {ACC_PUBLIC, ACC_PRIVATE, ACC_PROTECTED, ACC_STATIC, ACC_FINAL, ACC_INTERFACE,
     ACC_ABSTRACT, ACC_SYNTHETIC, ACC_ANNOTATION, ACC_ENUM}

MethodParameterAccessFlags == {ACC_FINAL, ACC_SYNTHETIC, ACC_MANDATED}

ModuleAccessFlags == {ACC_OPEN, ACC_SYNTHETIC, ACC_MANDATED}

ModuleRequiresFlags == {ACC_TRANSITIVE, ACC_STATIC_PHASE, ACC_SYNTHETIC, ACC_MANDATED}

ModuleExportsFlags == {ACC_SYNTHETIC, ACC_MANDATED}

ModuleOpensFlags == {ACC_SYNTHETIC, ACC_MANDATED}

\* the single-bit values set in the u16 v
BitsOf(v) == {2^k : k \in {j \in 0..15 : (v \div 2^j) % 2 = 1}}

RECURSIVE SumOf(_)
SumOf(S) == IF S = {} THEN 0 ELSE LET x == CHOOSE y \in S : TRUE IN x + SumOf(S \ {x})

\* Flags::from_bits: None when a bit outside the set is present
from_bits(flags, v) ==
    IF BitsOf(v) \subseteq flags THEN Some(v) ELSE Nothing

\* Flags::from_bits_truncate: the bits outside the set are dropped
from_bits_truncate(flags, v) == SumOf(BitsOf(v) \cap flags)

(***************************************************************************)
(* StackMapTable.                                                          *)
(***************************************************************************)
\* a match whose catch-all arm yields Top
read_stackmaptable_verification_lax(b, i) ==
    LET object(t, c) == IF ~c.ok THEN c ELSE Ok(c.ix, [tag |-> "Object", class_name |-> c.val])
        uninitialized(t, o) ==
            IF ~o.ok THEN o ELSE Ok(o.ix, [tag |-> "Uninitialized", code_offset |-> o.val])
        verification(t) ==
            IF ~t.ok THEN t
            ELSE CASE t.val = 0 -> Ok(t.ix, [tag |-> "Top"])
                   [] t.val = 1 -> Ok(t.ix, [tag |-> "Integer"])
                   [] t.val = 2 -> Ok(t.ix, [tag |-> "Float"])
                   [] t.val = 3 -> Ok(t.ix, [tag |-> "Double"])
                   [] t.val = 4 -> Ok(t.ix, [tag |-> "Long"])
                   [] t.val = 5 -> Ok(t.ix, [tag |-> "Null"])
                   [] t.val = 6 -> Ok(t.ix, [tag |-> "UninitializedThis"])
                   [] t.val = 7 ->
                        object(t, MapErr(read_cp_classinfo(b, t.ix),
                                         <<"object verification type">>))
                   [] t.val = 8 -> uninitialized(t, read_u2(b, t.ix))
                   [] OTHER -> Ok(t.ix, [tag |-> "Top"])
    IN verification(read_u1(b, i))

\* a decoder that has the arms of Double and Long the other way round
read_stackmaptable_verification_swapped(b, i) ==
    LET object(t, c) == IF ~c.ok THEN c ELSE Ok(c.ix, [tag |-> "Object", class_name |-> c.val])
        uninitialized(t, o) ==
            IF ~o.ok THEN o ELSE Ok(o.ix, [tag |-> "Uninitialized", code_offset |-> o.val])
        verification(t) ==
            IF ~t.ok THEN t
            ELSE CASE t.val = 0 -> Ok(t.ix, [tag |-> "Top"])
                   [] t.val = 1 -> Ok(t.ix, [tag |-> "Integer"])
                   [] t.val = 2 -> Ok(t.ix, [tag |-> "Float"])
                   [] t.val = 3 -> Ok(t.ix, [tag |-> "Long"])
                   [] t.val = 4 -> Ok(t.ix, [tag |-> "Double"])
                   [] t.val = 5 -> Ok(t.ix, [tag |-> "Null"])
                   [] t.val = 6 -> Ok(t.ix, [tag |-> "UninitializedThis"])
                   [] t.val = 7 ->
                        object(t, MapErr(read_cp_classinfo(b, t.ix),
                                         <<"object verification type">>))
                   [] t.val = 8 -> uninitialized(t, read_u2(b, t.ix))
                   [] OTHER -> Fail(t.ix, <<"Unrecognized verification type {}", t.val>>)
    IN verification(read_u1(b, i))

read_stackmaptable_verification(b, i) ==
    LET object(t, c) == IF ~c.ok THEN c ELSE Ok(c.ix, [tag |-> "Object", class_name |-> c.val])
        uninitialized(t, o) ==
            IF ~o.ok THEN o ELSE Ok(o.ix, [tag |-> "Uninitialized", code_offset |-> o.val])
        verification(t) ==
            IF ~t.ok THEN t
            ELSE CASE t.val = 0 -> Ok(t.ix, [tag |-> "Top"])
                   [] t.val = 1 -> Ok(t.ix, [tag |-> "Integer"])
                   [] t.val = 2 -> Ok(t.ix, [tag |-> "Float"])
                   [] t.val = 3 -> Ok(t.ix, [tag |-> "Double"])
                   [] t.val = 4 -> Ok(t.ix, [tag |-> "Long"])
                   [] t.val = 5 -> Ok(t.ix, [tag |-> "Null"])
                   [] t.val = 6 -> Ok(t.ix, [tag |-> "UninitializedThis"])
                   [] t.val = 7 ->
                        object(t, MapErr(read_cp_classinfo(b, t.ix),
                                         <<"object verification type">>))
                   [] t.val = 8 -> uninitialized(t, read_u2(b, t.ix))
                   [] OTHER -> Fail(t.ix, <<"Unrecognized verification type {}", t.val>>)
    IN verification(read_u1(b, i))

RECURSIVE read_verification_list(_, _, _, _, _, _, _)
\* for j in 0..count { list.push(read_stackmaptable_verification(..).map_err(..)?) }
read_verification_list(b, i, j, count, acc, what, entry) ==
    LET push(v) ==
            IF ~v.ok THEN v
            ELSE read_verification_list(b, v.ix, j + 1, count, Append(acc, v.val), what, entry)
    IN IF j >= count THEN Ok(i, acc)
       ELSE push(MapErr(read_stackmaptable_verification(b, i), <<what, j, entry>>))

\* 64..=127 and 247: one stack item after the offset delta
same_locals_1_stack_item(delta, st) ==
    IF ~st.ok THEN st
    ELSE Ok(st.ix, [tag |-> "SameLocals1StackItem", offset_delta |-> delta, stack |-> st.val])

\* an append frame that reads one local too few
append_frame_short(b, d, count, i) ==
    LET frame(ls) ==
            IF ~ls.ok THEN ls
            ELSE Ok(ls.ix, [tag |-> "Append", offset_delta |-> d.val, locals |-> ls.val])
    IN IF ~d.ok THEN d
       ELSE frame(read_verification_list(b, d.ix, 0, count - 1, <<>>,
                      "local entry {} of append stack map entry {}", i))

\* 252..=254: tag - 251 locals after the offset delta
append_frame(b, d, count, i) ==
    LET frame(ls) ==
            IF ~ls.ok THEN ls
            ELSE Ok(ls.ix, [tag |-> "Append", offset_delta |-> d.val, locals |-> ls.val])
    IN IF ~d.ok THEN d
       ELSE frame(read_verification_list(b, d.ix, 0, count, <<>>,
                      "local entry {} of append stack map entry {}", i))

\* 255: offset delta, counted locals, counted stack
full_frame(b, d, i) ==
    LET frame(ls, ss) ==
            IF ~ss.ok THEN ss
            ELSE Ok(ss.ix, [tag |-> "FullFrame", offset_delta |-> d.val,
                            locals |-> ls.val, stack |-> ss.val])
        stack_count(ls, sc) ==
            IF ~sc.ok THEN sc
            ELSE frame(ls, read_verification_list(b, sc.ix, 0, sc.val, <<>>,
                               "stack entry {} of full-frame stack map entry {}", i))
        locals(ls) == IF ~ls.ok THEN ls ELSE stack_count(ls, read_u2(b, ls.ix))
        locals_count(lc) ==
            IF ~lc.ok THEN lc
            ELSE locals(read_verification_list(b, lc.ix, 0, lc.val, <<>>,
                            "local entry {} of full-frame stack map entry {}", i))
    IN IF ~d.ok THEN d ELSE locals_count(read_u2(b, d.ix))

\* the body of the loop of read_stackmaptable_data: one frame
read_stackmap_frame(b, i0, i) ==
    LET chop(v, d) ==
            IF ~d.ok THEN d
            ELSE Ok(d.ix, [tag |-> "Chop", offset_delta |-> d.val, chop_count |-> 251 - v])
        same_extended(d) ==
            IF ~d.ok THEN d ELSE Ok(d.ix, [tag |-> "Same", offset_delta |-> d.val])
        item_extended(d) ==
            IF ~d.ok THEN d
            ELSE same_locals_1_stack_item(d.val,
                     MapErr(read_stackmaptable_verification(b, d.ix),
                            <<"same_locals_1_stack_item_frame_extended stack map entry {}", i>>))
        frame(t, v) ==
            CASE v \in 0..63 -> Ok(t.ix, [tag |-> "Same", offset_delta |-> v])
              [] v \in 64..127 ->
                   same_locals_1_stack_item(v - 64,
                       MapErr(read_stackmaptable_verification(b, t.ix),
                              <<"same_locals_1_stack_item_frame stack map entry {}", i>>))
              [] v \in 128..246 ->
                   FailCtx(t.ix, <<"Unrecognized discriminant {}", v>>,
                           <<"stack map entry {}", i>>)
              [] v = 247 -> item_extended(read_u2(b, t.ix))
              [] v \in 248..250 -> chop(v, read_u2(b, t.ix))
              [] v = 251 -> same_extended(read_u2(b, t.ix))
              [] v \in 252..254 -> append_frame(b, read_u2(b, t.ix), v - 251, i)
              [] v = 255 -> full_frame(b, read_u2(b, t.ix), i)
        tag(t) == IF ~t.ok THEN t ELSE frame(t, t.val)
    IN tag(read_u1(b, i0))

RECURSIVE read_stackmap_frames(_, _, _, _, _)
read_stackmap_frames(b, i0, i, count, acc) ==
    LET push(e) ==
            IF ~e.ok THEN e
            ELSE read_stackmap_frames(b, e.ix, i + 1, count, Append(acc, e.val))
    IN IF i >= count THEN Ok(i0, acc) ELSE push(read_stackmap_frame(b, i0, i))

read_stackmaptable_data(b, i0) ==
    LET frames(c) == IF ~c.ok THEN c ELSE read_stackmap_frames(b, c.ix, 0, c.val, <<>>)
    IN frames(read_u2(b, i0))

(***************************************************************************)
(* Exceptions, InnerClasses, LineNumberTable, LocalVariable(Type)Table.    *)
(***************************************************************************)
RECURSIVE read_exceptions_loop(_, _, _, _, _)
read_exceptions_loop(b, i0, i, count, acc) ==
    LET push(e) ==
            IF ~e.ok THEN e
            ELSE read_exceptions_loop(b, e.ix, i + 1, count, Append(acc, e.val))
    IN IF i >= count THEN Ok(i0, acc)
       ELSE push(MapErr(read_cp_classinfo(b, i0), <<"exception {}", i>>))

read_exceptions_data(b, i0) ==
    LET exceptions(c) == IF ~c.ok THEN c ELSE read_exceptions_loop(b, c.ix, 0, c.val, <<>>)
    IN exceptions(read_u2(b, i0))

\* an entry whose flags are read the strict way: from_bits(read_u2(bytes, ix)?)
read_innerclass_entry_strict(b, i0, i) ==
    LET access_flags(inner, outer, nm, fl) ==
            IF ~fl.ok THEN fl
            ELSE IF from_bits(InnerClassAccessFlags, fl.val) = Nothing
            THEN Fail(fl.ix, <<"Invalid access flags found">>)
            ELSE Ok(fl.ix, [inner_class_info |-> inner.val, outer_class_info |-> outer.val,
                            inner_name |-> nm.val,
                            access_flags |-> fl.val])
        inner_name(inner, outer, nm) ==
            IF ~nm.ok THEN nm ELSE access_flags(inner, outer, nm, read_u2(b, nm.ix))
        outer_class_info(inner, outer) ==
            IF ~outer.ok THEN outer
            ELSE inner_name(inner, outer,
                     MapErr(read_cp_utf8_opt(b, outer.ix),
                            <<"inner name for inner class {}", i>>))
        inner_class_info(inner) ==
            IF ~inner.ok THEN inner
            ELSE outer_class_info(inner,
                     MapErr(read_cp_classinfo_opt(b, inner.ix),
                            <<"outer class info for inner class {}", i>>))
    IN inner_class_info(MapErr(read_cp_classinfo(b, i0),
                               <<"inner class info for inner class {}", i>>))

read_innerclass_entry(b, i0, i) ==
    LET access_flags(inner, outer, nm, fl) ==
            IF ~fl.ok THEN fl
            ELSE Ok(fl.ix, [inner_class_info |-> inner.val, outer_class_info |-> outer.val,
                            inner_name |-> nm.val,
                            access_flags |-> from_bits_truncate(InnerClassAccessFlags, fl.val)])
        inner_name(inner, outer, nm) ==
            IF ~nm.ok THEN nm ELSE access_flags(inner, outer, nm, read_u2(b, nm.ix))
        outer_class_info(inner, outer) ==
            IF ~outer.ok THEN outer
            ELSE inner_name(inner, outer,
                     MapErr(read_cp_utf8_opt(b, outer.ix),
                            <<"inner name for inner class {}", i>>))
        inner_class_info(inner) ==
            IF ~inner.ok THEN inner
            ELSE outer_class_info(inner,
                     MapErr(read_cp_classinfo_opt(b, inner.ix),
                            <<"outer class info for inner class {}", i>>))
    IN inner_class_info(MapErr(read_cp_classinfo(b, i0),
                               <<"inner class info for inner class {}", i>>))

RECURSIVE read_innerclasses_loop(_, _, _, _, _)
read_innerclasses_loop(b, i0, i, count, acc) ==
    LET push(e) ==
            IF ~e.ok THEN e
            ELSE read_innerclasses_loop(b, e.ix, i + 1, count, Append(acc, e.val))
    IN IF i >= count THEN Ok(i0, acc) ELSE push(read_innerclass_entry(b, i0, i))

read_innerclasses_data(b, i0) ==
    LET innerclasses(c) ==
            IF ~c.ok THEN c ELSE read_innerclasses_loop(b, c.ix, 0, c.val, <<>>)
    IN innerclasses(read_u2(b, i0))

RECURSIVE read_linenumber_loop(_, _, _, _, _)
read_linenumber_loop(b, i0, i, count, acc) ==
    LET line_number(pc, ln) ==
            IF ~ln.ok THEN ln
            ELSE read_linenumber_loop(b, ln.ix, i + 1, count,
                     Append(acc, [start_pc |-> pc.val, line_number |-> ln.val]))
        start_pc(pc) == IF ~pc.ok THEN pc ELSE line_number(pc, read_u2(b, pc.ix))
    IN IF i >= count THEN Ok(i0, acc) ELSE start_pc(read_u2(b, i0))

read_linenumber_data(b, i0) ==
    LET linenumbers(c) == IF ~c.ok THEN c ELSE read_linenumber_loop(b, c.ix, 0, c.val, <<>>)
    IN linenumbers(read_u2(b, i0))

\* an entry whose descriptor is taken as the pool has it, the way a signature is
read_localvariable_entry_unchecked(b, i0, i) ==
    LET index(pc, ln, nm, ds, idx) ==
            IF ~idx.ok THEN idx
            ELSE Ok(idx.ix, [start_pc |-> pc.val, length |-> ln.val, name |-> nm.val,
                             descriptor |-> ds.val, index |-> idx.val])
        descriptor(pc, ln, nm, ds) ==
            IF ~ds.ok THEN ds ELSE index(pc, ln, nm, ds, read_u2(b, ds.ix))
        name(pc, ln, nm) ==
            IF ~nm.ok THEN nm
            ELSE IF ~is_unqualified_name(nm.val, FALSE, FALSE)
            THEN Fail(nm.ix, <<"Invalid unqualified name for variable {}", i>>)
            ELSE descriptor(pc, ln, nm,
                     MapErr(read_cp_utf8(b, nm.ix), <<"descriptor for variable {}", i>>))
        length(pc, ln) ==
            IF ~ln.ok THEN ln
            ELSE name(pc, ln, MapErr(read_cp_utf8(b, ln.ix), <<"name for variable {}", i>>))
        start_pc(pc) == IF ~pc.ok THEN pc ELSE length(pc, read_u2(b, pc.ix))
    IN start_pc(read_u2(b, i0))

read_localvariable_entry(b, i0, i) ==
    LET index(pc, ln, nm, ds, idx) ==
            IF ~idx.ok THEN idx
            ELSE Ok(idx.ix, [start_pc |-> pc.val, length |-> ln.val, name |-> nm.val,
                             descriptor |-> ds.val, index |-> idx.val])
        descriptor(pc, ln, nm, ds) ==
            IF ~ds.ok THEN ds
            ELSE IF ~is_field_descriptor(ds.val)
            THEN Fail(ds.ix, <<"Invalid descriptor for variable {}", i>>)
            ELSE index(pc, ln, nm, ds, read_u2(b, ds.ix))
        name(pc, ln, nm) ==
            IF ~nm.ok THEN nm
            ELSE IF ~is_unqualified_name(nm.val, FALSE, FALSE)
            THEN Fail(nm.ix, <<"Invalid unqualified name for variable {}", i>>)
            ELSE descriptor(pc, ln, nm,
                     MapErr(read_cp_utf8(b, nm.ix), <<"descriptor for variable {}", i>>))
        length(pc, ln) ==
            IF ~ln.ok THEN ln
            ELSE name(pc, ln, MapErr(read_cp_utf8(b, ln.ix), <<"name for variable {}", i>>))
        start_pc(pc) == IF ~pc.ok THEN pc ELSE length(pc, read_u2(b, pc.ix))
    IN start_pc(read_u2(b, i0))

RECURSIVE read_localvariable_loop(_, _, _, _, _)
read_localvariable_loop(b, i0, i, count, acc) ==
    LET push(e) ==
            IF ~e.ok THEN e
            ELSE read_localvariable_loop(b, e.ix, i + 1, count, Append(acc, e.val))
    IN IF i >= count THEN Ok(i0, acc) ELSE push(read_localvariable_entry(b, i0, i))

read_localvariable_data(b, i0) ==
    LET localvariables(c) ==
            IF ~c.ok THEN c ELSE read_localvariable_loop(b, c.ix, 0, c.val, <<>>)
    IN localvariables(read_u2(b, i0))

read_localvariabletype_entry(b, i0, i) ==
    LET index(pc, ln, nm, sg, idx) ==
            IF ~idx.ok THEN idx
            ELSE Ok(idx.ix, [start_pc |-> pc.val, length |-> ln.val, name |-> nm.val,
                             signature |-> sg.val, index |-> idx.val])
        signature(pc, ln, nm, sg) ==
            IF ~sg.ok THEN sg ELSE index(pc, ln, nm, sg, read_u2(b, sg.ix))
        name(pc, ln, nm) ==
            IF ~nm.ok THEN nm
            ELSE IF ~is_unqualified_name(nm.val, FALSE, FALSE)
            THEN Fail(nm.ix, <<"Invalid unqualified name for variable {}", i>>)
            ELSE signature(pc, ln, nm,
                     MapErr(read_cp_utf8(b, nm.ix), <<"signature for variable {}", i>>))
        length(pc, ln) ==
            IF ~ln.ok THEN ln
            ELSE name(pc, ln, MapErr(read_cp_utf8(b, ln.ix), <<"name for variable {}", i>>))
        start_pc(pc) == IF ~pc.ok THEN pc ELSE length(pc, read_u2(b, pc.ix))
    IN start_pc(read_u2(b, i0))

RECURSIVE read_localvariabletype_loop(_, _, _, _, _)
read_localvariabletype_loop(b, i0, i, count, acc) ==
    LET push(e) ==
            IF ~e.ok THEN e
            ELSE read_localvariabletype_loop(b, e.ix, i + 1, count, Append(acc, e.val))
    IN IF i >= count THEN Ok(i0, acc) ELSE push(read_localvariabletype_entry(b, i0, i))

read_localvariabletype_data(b, i0) ==
    LET localvariabletypes(c) ==
            IF ~c.ok THEN c ELSE read_localvariabletype_loop(b, c.ix, 0, c.val, <<>>)
    IN localvariabletypes(read_u2(b, i0))

(***************************************************************************)
(* Annotations.  read_annotation_element_value and read_annotation call    *)
(* each other.  The tag byte is matched as a char; CharOf gives the chars  *)
(* the match names.                                                        *)
(***************************************************************************)
\* a conversion that folds the case of 's'
CharOfFolded(v) ==
    CASE v = 66 -> "B" [] v = 67 -> "C" [] v = 68 -> "D" [] v = 70 -> "F"
      [] v = 73 -> "I" [] v = 74 -> "J" [] v = 83 -> "S" [] v = 90 -> "Z"
      [] v = 115 -> "S" [] v = 101 -> "e" [] v = 99 -> "c" [] v = 64 -> "@"
      [] v = 91 -> "[" [] OTHER -> "?"

\* `as char` of the tag byte: the characters the match names, "?" for any other byte
CharOf(v) ==
    CASE v = 66 -> "B" [] v = 67 -> "C" [] v = 68 -> "D" [] v = 70 -> "F"
      [] v = 73 -> "I" [] v = 74 -> "J" [] v = 83 -> "S" [] v = 90 -> "Z"
      [] v = 115 -> "s" [] v = 101 -> "e" [] v = 99 -> "c" [] v = 64 -> "@"
      [] v = 91 -> "[" [] OTHER -> "?"

\* wrap the value of a successful read in the element value variant `tag`
Constant(r, tag) == IF ~r.ok THEN r ELSE Ok(r.ix, [tag |-> tag, value |-> r.val])

\* The decoders below that read an annotation are written statement by statement: pc names
\* the read whose Result r has just come back, s holds the locals of the function.  A failed
\* read returns at once (the `?` of the source).
RECURSIVE read_annotation_element_value(_, _)
RECURSIVE read_annotation(_, _)
RECURSIVE annotation_element_value_step(_, _, _, _)
RECURSIVE annotation_step(_, _, _, _)
RECURSIVE annotation_step_unchecked(_, _, _, _)

annotation_element_value_step(b, pc, r, s) ==
    IF ~r.ok THEN r
    ELSE CASE pc = "tag" ->
                LET c == CharOf(r.val) IN
                CASE c = "B" -> Constant(read_cp_integer(b, r.ix), "ByteConstant")
                  [] c = "C" -> Constant(read_cp_integer(b, r.ix), "CharConstant")
                  [] c = "D" -> Constant(read_cp_double(b, r.ix), "DoubleConstant")
                  [] c = "F" -> Constant(read_cp_float(b, r.ix), "FloatConstant")
                  [] c = "I" -> Constant(read_cp_integer(b, r.ix), "IntConstant")
                  [] c = "J" -> Constant(read_cp_long(b, r.ix), "LongConstant")
                  [] c = "S" -> Constant(read_cp_integer(b, r.ix), "ShortConstant")
                  [] c = "Z" -> Constant(read_cp_integer(b, r.ix), "BooleanConstant")
                  [] c = "s" -> Constant(read_cp_utf8(b, r.ix), "StringConstant")
                  [] c = "e" ->
                       annotation_element_value_step(b, "type_name", read_cp_utf8(b, r.ix), s)
                  [] c = "c" ->
                       annotation_element_value_step(b, "class_name", read_cp_utf8(b, r.ix), s)
                  [] c = "@" -> Constant(read_annotation(b, r.ix), "AnnotationValue")
                  [] c = "[" ->
                       annotation_element_value_step(b, "num_values", read_u2(b, r.ix), s)
                  [] OTHER -> Fail(r.ix, <<"Unrecognized discriminant {}", r.val>>)
           [] pc = "type_name" ->
                IF ~is_field_descriptor(r.val) THEN Fail(r.ix, <<"Invalid enum descriptor">>)
                ELSE annotation_element_value_step(b, "const_name", read_cp_utf8(b, r.ix),
                                                   [s EXCEPT !.type_name = r.val])
           [] pc = "const_name" ->
                Ok(r.ix, [tag |-> "EnumConstant", type_name |-> s.type_name,
                          const_name |-> r.val])
           [] pc = "class_name" ->
                IF ~is_return_descriptor(r.val)
                THEN Fail(r.ix, <<"Invalid classinfo descriptor">>)
                ELSE Ok(r.ix, [tag |-> "ClassLiteral", class_name |-> r.val])
           [] pc = "num_values" ->
                annotation_element_value_step(b, "loop", r, [s EXCEPT !.count = r.val])
           [] pc = "loop" ->
                IF s.i >= s.count THEN Ok(r.ix, [tag |-> "ArrayValue", value |-> s.values])
                ELSE annotation_element_value_step(b, "value",
                         MapErr(read_annotation_element_value(b, r.ix),
                                <<"array index {}", s.i>>), s)
           [] pc = "value" ->
                annotation_element_value_step(b, "loop", r,
                    [s EXCEPT !.values = Append(@, r.val), !.i = @ + 1])

read_annotation_element_value(b, i0) ==
    annotation_element_value_step(b, "tag", read_u1(b, i0),
        [type_name |-> Nothing, count |-> 0, i |-> 0, values |-> <<>>])

\* an annotation whose type descriptor is taken as the pool has it
annotation_step_unchecked(b, pc, r, s) ==
    IF ~r.ok THEN r
    ELSE CASE pc = "type_descriptor" ->
                annotation_step_unchecked(b, "num_elements", read_u2(b, r.ix),
                                          [s EXCEPT !.type_descriptor = r.val])
           [] pc = "num_elements" ->
                annotation_step_unchecked(b, "loop", r, [s EXCEPT !.count = r.val])
           [] pc = "loop" ->
                IF s.i >= s.count
                THEN Ok(r.ix, [type_descriptor |-> s.type_descriptor, elements |-> s.elements])
                ELSE annotation_step_unchecked(b, "name",
                         MapErr(read_cp_utf8(b, r.ix), <<"name of element {}", s.i>>), s)
           [] pc = "name" ->
                annotation_step_unchecked(b, "value",
                    MapErr(read_annotation_element_value(b, r.ix),
                           <<"value of element {}", s.i>>),
                    [s EXCEPT !.name = r.val])
           [] pc = "value" ->
                annotation_step_unchecked(b, "loop", r,
                    [s EXCEPT !.elements = Append(@, [name |-> s.name, value |-> r.val]),
                              !.i = @ + 1])

annotation_step(b, pc, r, s) ==
    IF ~r.ok THEN r
    ELSE CASE pc = "type_descriptor" ->
                IF ~is_field_descriptor(r.val) THEN Fail(r.ix, <<"Invalid descriptor">>)
                ELSE annotation_step(b, "num_elements", read_u2(b, r.ix),
                                     [s EXCEPT !.type_descriptor = r.val])
           [] pc = "num_elements" -> annotation_step(b, "loop", r, [s EXCEPT !.count = r.val])
           [] pc = "loop" ->
                IF s.i >= s.count
                THEN Ok(r.ix, [type_descriptor |-> s.type_descriptor, elements |-> s.elements])
                ELSE annotation_step(b, "name",
                         MapErr(read_cp_utf8(b, r.ix), <<"name of element {}", s.i>>), s)
           [] pc = "name" ->
                annotation_step(b, "value",
                    MapErr(read_annotation_element_value(b, r.ix),
                           <<"value of element {}", s.i>>),
                    [s EXCEPT !.name = r.val])
           [] pc = "value" ->
                annotation_step(b, "loop", r,
                    [s EXCEPT !.elements = Append(@, [name |-> s.name, value |-> r.val]),
                              !.i = @ + 1])

read_annotation(b, i0) ==
    annotation_step(b, "type_descriptor",
        MapErr(read_cp_utf8(b, i0), <<"type descriptor field">>),
        [type_descriptor |-> Nothing, count |-> 0, i |-> 0, elements |-> <<>>,
         name |-> Nothing])

RECURSIVE annotation_data_step(_, _, _, _)
annotation_data_step(b, pc, r, s) ==
    IF ~r.ok THEN r
    ELSE CASE pc = "count" -> annotation_data_step(b, "loop", r, [s EXCEPT !.count = r.val])
           [] pc = "loop" ->
                IF s.i >= s.count THEN Ok(r.ix, s.annotations)
                ELSE annotation_data_step(b, "annotation",
                         MapErr(read_annotation(b, r.ix), <<"annotation {}", s.i>>), s)
           [] pc = "annotation" ->
                annotation_data_step(b, "loop", r,
                    [s EXCEPT !.annotations = Append(@, r.val), !.i = @ + 1])

read_annotation_data(b, i0) ==
    annotation_data_step(b, "count", read_u2(b, i0),
                         [count |-> 0, i |-> 0, annotations |-> <<>>])

RECURSIVE parameter_annotation_data_step(_, _, _, _)
\* i counts the parameters, j the annotations of parameter i
parameter_annotation_data_step(b, pc, r, s) ==
    IF ~r.ok THEN r
    ELSE CASE pc = "count" ->
                parameter_annotation_data_step(b, "loop", r, [s EXCEPT !.count = r.val])
           [] pc = "loop" ->
                IF s.i >= s.count THEN Ok(r.ix, s.parameters)
                ELSE parameter_annotation_data_step(b, "num_annotations", read_u2(b, r.ix), s)
           [] pc = "num_annotations" ->
                parameter_annotation_data_step(b, "inner loop", r,
                    [s EXCEPT !.num_annotations = r.val, !.j = 0, !.annotations = <<>>])
           [] pc = "inner loop" ->
                IF s.j >= s.num_annotations
                THEN parameter_annotation_data_step(b, "loop", r,
                         [s EXCEPT !.parameters = Append(@, [annotations |-> s.annotations]),
                                   !.i = @ + 1])
                ELSE parameter_annotation_data_step(b, "annotation",
                         MapErr(read_annotation(b, r.ix),
                                <<"annotation {} of parameter {}", s.j, s.i>>), s)
           [] pc = "annotation" ->
                parameter_annotation_data_step(b, "inner loop", r,
                    [s EXCEPT !.annotations = Append(@, r.val), !.j = @ + 1])

read_parameter_annotation_data(b, i0) ==
    parameter_annotation_data_step(b, "count", read_u1(b, i0),
        [count |-> 0, i |-> 0, parameters |-> <<>>, num_annotations |-> 0, j |-> 0,
         annotations |-> <<>>])

(***************************************************************************)
(* Type annotations.                                                       *)
(***************************************************************************)
RECURSIVE read_localvar_targets(_, _, _, _, _)
read_localvar_targets(b, i0, j, count, acc) ==
    LET index(pc, ln, idx) ==
            IF ~idx.ok THEN idx
            ELSE read_localvar_targets(b, idx.ix, j + 1, count,
                     Append(acc, [start_pc |-> pc.val, length |-> ln.val,
                                  index |-> idx.val]))
        length(pc, ln) == IF ~ln.ok THEN ln ELSE index(pc, ln, read_u2(b, ln.ix))
        start_pc(pc) == IF ~pc.ok THEN pc ELSE length(pc, read_u2(b, pc.ix))
    IN IF j >= count THEN Ok(i0, acc) ELSE start_pc(read_u2(b, i0))

\* a target made of one field, read as x
Target(x, tag, field) == IF ~x.ok THEN x ELSE Ok(x.ix, [tag |-> tag] @@ (field :> x.val))

\* the match on target_type; i0 is the cursor after the target_type byte v
read_target_type(b, i0, v, i) ==
    LET bound(tp, bd) ==
            IF ~bd.ok THEN bd
            ELSE Ok(bd.ix, [tag |-> "TypeParameterBound",
                            type_parameter_index |-> tp.val, bound_index |-> bd.val])
        type_parameter(tp) == IF ~tp.ok THEN tp ELSE bound(tp, read_u1(b, tp.ix))
        localvars(lv) ==
            IF ~lv.ok THEN lv ELSE Ok(lv.ix, [tag |-> "LocalVar", localvars |-> lv.val])
        localvar_count(n) ==
            IF ~n.ok THEN n ELSE localvars(read_localvar_targets(b, n.ix, 0, n.val, <<>>))
        type_argument(off, ta) ==
            IF ~ta.ok THEN ta
            ELSE Ok(ta.ix, [tag |-> "TypeArgument", offset |-> off.val,
                            type_argument_index |-> ta.val])
        offset(off) == IF ~off.ok THEN off ELSE type_argument(off, read_u1(b, off.ix))
    IN CASE v \in {0, 1} -> Target(read_u1(b, i0), "TypeParameter", "index")
         [] v = 16 -> Target(read_u2(b, i0), "Supertype", "index")
         [] v \in {17, 18} -> type_parameter(read_u1(b, i0))
         [] v \in {19, 20, 21} -> Ok(i0, [tag |-> "Empty"])
         [] v = 22 -> Target(read_u1(b, i0), "FormalParameter", "index")
         [] v = 23 -> Target(read_u2(b, i0), "Throws", "index")
         [] v \in {64, 65} -> localvar_count(read_u2(b, i0))
         [] v = 66 -> Target(read_u2(b, i0), "Catch", "exception_table_index")
         [] v \in 67..70 -> Target(read_u2(b, i0), "Offset", "offset")
         [] v \in 71..75 -> offset(read_u2(b, i0))
         [] OTHER -> FailCtx(i0, <<"Unrecognized target type {}", v>>,
                             <<"type annotation {}", i>>)

PathKinds == <<"DeeperArray", "DeeperNested", "WildcardTypeArgument", "TypeArgument">>

RECURSIVE read_target_path(_, _, _, _, _, _)
read_target_path(b, i0, j, count, acc, i) ==
    LET argument_index(k, a) ==
            IF ~a.ok THEN a
            ELSE read_target_path(b, a.ix, j + 1, count,
                     Append(acc, [path_kind |-> PathKinds[k.val + 1],
                                  argument_index |-> a.val]), i)
        path_kind(k) ==
            IF ~k.ok THEN k
            ELSE IF k.val > 3
            THEN FailCtx(k.ix, <<"Unrecognized path kind {}", k.val>>,
                         <<"path element {} of type annotation {}", j, i>>)
            ELSE argument_index(k, read_u1(b, k.ix))
    IN IF j >= count THEN Ok(i0, acc) ELSE path_kind(read_u1(b, i0))

RECURSIVE type_annotation_data_step(_, _, _, _)
type_annotation_data_step(b, pc, r, s) ==
    IF ~r.ok THEN r
    ELSE CASE pc = "count" ->
                type_annotation_data_step(b, "loop", r, [s EXCEPT !.count = r.val])
           [] pc = "loop" ->
                IF s.i >= s.count THEN Ok(r.ix, s.annotations)
                ELSE type_annotation_data_step(b, "target_type", read_u1(b, r.ix), s)
           [] pc = "target_type" ->
                type_annotation_data_step(b, "target_info",
                    read_target_type(b, r.ix, r.val, s.i), s)
           [] pc = "target_info" ->
                type_annotation_data_step(b, "path_count", read_u1(b, r.ix),
                                          [s EXCEPT !.target_type = r.val])
           [] pc = "path_count" ->
                type_annotation_data_step(b, "target_path",
                    read_target_path(b, r.ix, 0, r.val, <<>>, s.i), s)
           [] pc = "target_path" ->
                type_annotation_data_step(b, "annotation",
                    MapErr(read_annotation(b, r.ix), <<"type annotation {}", s.i>>),
                    [s EXCEPT !.target_path = r.val])
           [] pc = "annotation" ->
                type_annotation_data_step(b, "loop", r,
                    [s EXCEPT !.annotations =
                                  Append(@, [target_type |-> s.target_type,
                                             target_path |-> s.target_path,
                                             annotation |-> r.val]),
                              !.i = @ + 1])

read_type_annotation_data(b, i0) ==
    type_annotation_data_step(b, "count", read_u2(b, i0),
        [count |-> 0, i |-> 0, annotations |-> <<>>, target_type |-> Nothing,
         target_path |-> <<>>])

(***************************************************************************)
(* BootstrapMethods, MethodParameters, Module, ModulePackages, NestMembers.*)
(***************************************************************************)
RECURSIVE read_bootstrap_arguments(_, _, _, _, _, _)
read_bootstrap_arguments(b, i0, j, count, acc, i) ==
    LET push(a) ==
            IF ~a.ok THEN a
            ELSE read_bootstrap_arguments(b, a.ix, j + 1, count, Append(acc, a.val), i)
    IN IF j >= count THEN Ok(i0, acc)
       ELSE push(MapErr(read_cp_bootstrap_argument(b, i0),
                        <<"argument {} of bootstrap method {}", j, i>>))

RECURSIVE read_bootstrapmethods_loop(_, _, _, _, _)
read_bootstrapmethods_loop(b, i0, i, count, acc) ==
    LET arguments(m, as) ==
            IF ~as.ok THEN as
            ELSE read_bootstrapmethods_loop(b, as.ix, i + 1, count,
                     Append(acc, [method |-> m.val, arguments |-> as.val]))
        num_arguments(m, n) ==
            IF ~n.ok THEN n
            ELSE arguments(m, read_bootstrap_arguments(b, n.ix, 0, n.val, <<>>, i))
        method(m) == IF ~m.ok THEN m ELSE num_arguments(m, read_u2(b, m.ix))
    IN IF i >= count THEN Ok(i0, acc)
       ELSE method(MapErr(read_cp_methodhandle(b, i0),
                          <<"method ref of bootstrap method {}", i>>))

read_bootstrapmethods_data(b, i0) ==
    LET bootstrapmethods(c) ==
            IF ~c.ok THEN c ELSE read_bootstrapmethods_loop(b, c.ix, 0, c.val, <<>>)
    IN bootstrapmethods(read_u2(b, i0))

\* a strict flag set read the lenient way: from_bits_truncate(read_u2(bytes, ix)?)
read_flags_truncating(b, i0, flags, msg, ctx) ==
    LET bits(v) == IF ~v.ok THEN v ELSE Ok(v.ix, from_bits_truncate(flags, v.val))
    IN bits(read_u2(b, i0))

\* from_bits(read_u2(bytes, ix)?).ok_or_else(|| err!((msg), ctx)): ctx is <<>> when the
\* err! has no context frame
read_flags(b, i0, flags, msg, ctx) ==
    LET checked(v, f) ==
            IF f = Nothing
            THEN [ok |-> FALSE, ix |-> v.ix, val |-> Nothing, err |-> ParseError(<<msg>>, ctx)]
            ELSE Ok(v.ix, f.value)
        bits(v) == IF ~v.ok THEN v ELSE checked(v, from_bits(flags, v.val))
    IN bits(read_u2(b, i0))

read_methodparameter_entry(b, i0, i) ==
    LET access_flags(nm, fl) ==
            IF ~fl.ok THEN fl ELSE Ok(fl.ix, [name |-> nm.val, access_flags |-> fl.val])
        name(nm) ==
            IF ~nm.ok THEN nm
            ELSE IF nm.val.tag = "Some" /\ ~is_unqualified_name(nm.val.value, FALSE, FALSE)
            THEN Fail(nm.ix, <<"Invalid unqualified name for variable {}", i>>)
            ELSE access_flags(nm, read_flags(b, nm.ix, MethodParameterAccessFlags,
                                             "Invalid access flags found",
                                             <<<<"method parameter {}", i>>>>))
    IN name(MapErr(read_cp_utf8_opt(b, i0), <<"name of method parameter {}", i>>))

RECURSIVE read_methodparameters_loop(_, _, _, _, _)
read_methodparameters_loop(b, i0, i, count, acc) ==
    LET push(e) ==
            IF ~e.ok THEN e
            ELSE read_methodparameters_loop(b, e.ix, i + 1, count, Append(acc, e.val))
    IN IF i >= count THEN Ok(i0, acc) ELSE push(read_methodparameter_entry(b, i0, i))

read_methodparameters_data(b, i0) ==
    LET methodparameters(c) ==
            IF ~c.ok THEN c ELSE read_methodparameters_loop(b, c.ix, 0, c.val, <<>>)
    IN methodparameters(read_u1(b, i0))

RECURSIVE read_name_list(_, _, _, _, _, _, _)
\* for j in 0..count { list.push(read_cp_<kind>(..).map_err(|e| err!(e, ctx))?) }
\* ctx is the frame without the loop index, which is put after the format string
read_name_list(b, i0, j, count, acc, kind, ctx) ==
    LET push(n) ==
            IF ~n.ok THEN n
            ELSE read_name_list(b, n.ix, j + 1, count, Append(acc, n.val), kind, ctx)
    IN IF j >= count THEN Ok(i0, acc)
       ELSE push(MapErr(read_cp_kind(b, i0, kind), <<ctx[1], j>> \o Tail(ctx)))

\* u2 count, then that many pool names of one kind
read_counted_names(b, i0, kind, ctx) ==
    LET names(c) == IF ~c.ok THEN c ELSE read_name_list(b, c.ix, 0, c.val, <<>>, kind, ctx)
    IN names(read_u2(b, i0))

RECURSIVE read_module_requires(_, _, _, _, _)
read_module_requires(b, i0, i, count, acc) ==
    LET version(nm, fl, vs) ==
            IF ~vs.ok THEN vs
            ELSE read_module_requires(b, vs.ix, i + 1, count,
                     Append(acc, [name |-> nm.val, flags |-> fl.val, version |-> vs.val]))
        flags(nm, fl) ==
            IF ~fl.ok THEN fl
            ELSE version(nm, fl, MapErr(read_cp_utf8_opt(b, fl.ix),
                                        <<"version of requires entry {}", i>>))
        name(nm) ==
            IF ~nm.ok THEN nm
            ELSE flags(nm, read_flags(b, nm.ix, ModuleRequiresFlags,
                                      "Invalid module requires flags", <<<<"entry {}", i>>>>))
    IN IF i >= count THEN Ok(i0, acc)
       ELSE name(MapErr(read_cp_moduleinfo(b, i0), <<"name of requires entry {}", i>>))

RECURSIVE read_module_exports(_, _, _, _, _)
read_module_exports(b, i0, i, count, acc) ==
    LET exports_to(pk, fl, to) ==
            IF ~to.ok THEN to
            ELSE read_module_exports(b, to.ix, i + 1, count,
                     Append(acc, [package_name |-> pk.val, flags |-> fl.val,
                                  exports_to |-> to.val]))
        flags(pk, fl) ==
            IF ~fl.ok THEN fl
            ELSE exports_to(pk, fl,
                     read_counted_names(b, fl.ix, "ModuleInfo",
                         <<"name of exports_to entry {} of exports entry {}", i>>))
        package_name(pk) ==
            IF ~pk.ok THEN pk
            ELSE flags(pk, read_flags(b, pk.ix, ModuleExportsFlags,
                                      "Invalid module exports flags", <<<<"entry {}", i>>>>))
    IN IF i >= count THEN Ok(i0, acc)
       ELSE package_name(MapErr(read_cp_packageinfo(b, i0),
                                <<"package name of exports entry {}", i>>))

RECURSIVE read_module_opens(_, _, _, _, _)
read_module_opens(b, i0, i, count, acc) ==
    LET opens_to(pk, fl, to) ==
            IF ~to.ok THEN to
            ELSE read_module_opens(b, to.ix, i + 1, count,
                     Append(acc, [package_name |-> pk.val, flags |-> fl.val,
                                  opens_to |-> to.val]))
        flags(pk, fl) ==
            IF ~fl.ok THEN fl
            ELSE opens_to(pk, fl,
                     read_counted_names(b, fl.ix, "ModuleInfo",
                         <<"name of opens_to entry {} of opens entry {}", i>>))
        package_name(pk) ==
            IF ~pk.ok THEN pk
            ELSE flags(pk, read_flags(b, pk.ix, ModuleOpensFlags,
                                      "Invalid module opens flags", <<<<"entry {}", i>>>>))
    IN IF i >= count THEN Ok(i0, acc)
       ELSE package_name(MapErr(read_cp_packageinfo(b, i0),
                                <<"package name of opens entry {}", i>>))

RECURSIVE read_module_provides(_, _, _, _, _)
read_module_provides(b, i0, i, count, acc) ==
    LET provides_with(sv, pw) ==
            IF ~pw.ok THEN pw
            ELSE read_module_provides(b, pw.ix, i + 1, count,
                     Append(acc, [service_interface_name |-> sv.val,
                                  provides_with |-> pw.val]))
        service(sv) ==
            IF ~sv.ok THEN sv
            ELSE provides_with(sv,
                     read_counted_names(b, sv.ix, "ClassInfo",
                         <<"provides_with entry {} of provides entry {}", i>>))
    IN IF i >= count THEN Ok(i0, acc)
       ELSE service(MapErr(read_cp_classinfo(b, i0),
                           <<"service interface name of provides entry {}", i>>))

read_module_data(b, i0) ==
    LET provides(m, op, us, pv) ==
            IF ~pv.ok THEN pv
            ELSE Ok(pv.ix, m @@ [opens |-> op.val, uses |-> us.val, provides |-> pv.val])
        provides_count(m, op, us, pc) ==
            IF ~pc.ok THEN pc
            ELSE provides(m, op, us, read_module_provides(b, pc.ix, 0, pc.val, <<>>))
        uses(m, op, us) ==
            IF ~us.ok THEN us ELSE provides_count(m, op, us, read_u2(b, us.ix))
        opens(m, op) ==
            IF ~op.ok THEN op
            ELSE uses(m, op, read_counted_names(b, op.ix, "ClassInfo",
                                                <<"name of uses entry {}">>))
        opens_count(m, oc) ==
            IF ~oc.ok THEN oc ELSE opens(m, read_module_opens(b, oc.ix, 0, oc.val, <<>>))
        exports(nm, fl, vs, rq, ex) ==
            IF ~ex.ok THEN ex
            ELSE opens_count([name |-> nm.val, access_flags |-> fl.val, version |-> vs.val,
                              requires |-> rq.val, exports |-> ex.val],
                             read_u2(b, ex.ix))
        exports_count(nm, fl, vs, rq, ec) ==
            IF ~ec.ok THEN ec
            ELSE exports(nm, fl, vs, rq, read_module_exports(b, ec.ix, 0, ec.val, <<>>))
        requires(nm, fl, vs, rq) ==
            IF ~rq.ok THEN rq ELSE exports_count(nm, fl, vs, rq, read_u2(b, rq.ix))
        requires_count(nm, fl, vs, rc) ==
            IF ~rc.ok THEN rc
            ELSE requires(nm, fl, vs, read_module_requires(b, rc.ix, 0, rc.val, <<>>))
        version(nm, fl, vs) ==
            IF ~vs.ok THEN vs ELSE requires_count(nm, fl, vs, read_u2(b, vs.ix))
        access_flags(nm, fl) ==
            IF ~fl.ok THEN fl
            ELSE version(nm, fl, MapErr(read_cp_utf8_opt(b, fl.ix), <<"version">>))
        name(nm) ==
            IF ~nm.ok THEN nm
            ELSE access_flags(nm, read_flags(b, nm.ix, ModuleAccessFlags,
                                             "Invalid access flags found", <<>>))
    IN name(MapErr(read_cp_moduleinfo(b, i0), <<"name">>))

read_modulepackages_data(b, i0) == read_counted_names(b, i0, "PackageInfo", <<"package name {}">>)

read_nestmembers_data(b, i0) == read_counted_names(b, i0, "ClassInfo", <<"class name {}">>)

(* Collaborators of the dispatcher that live outside attributes.rs.        *)
(***************************************************************************)
RECURSIVE Cesu8Valid(_, _)
\* whether b[p..] is a sequence of well-formed 1-, 2- and 3-byte encodings
Cesu8Valid(b, p) ==
    IF p > Len(b) THEN TRUE
    ELSE LET c == b[p]
             Cont(q) == q <= Len(b) /\ b[q] \in 128..191 IN
         IF c < 128 THEN Cesu8Valid(b, p + 1)
         ELSE IF c \in 192..223 THEN Cont(p + 1) /\ Cesu8Valid(b, p + 2)
         ELSE IF c \in 224..239 THEN Cont(p + 1) /\ Cont(p + 2) /\ Cesu8Valid(b, p + 3)
         ELSE FALSE

\* cesu8::from_java_cesu8: the decoded string is kept as the bytes it was decoded from
from_java_cesu8(data) ==
    IF Cesu8Valid(data, 1) THEN [ok |-> TRUE, val |-> data] ELSE [ok |-> FALSE, val |-> Nothing]

\* operand bytes of the opcodes the model's code arrays use: nop, bipush, sipush, return;
\* any other opcode is taken as unknown
OperandBytes(op) ==
    CASE op = 0 -> 0 [] op = 16 -> 1 [] op = 17 -> 2 [] op = 177 -> 0 [] OTHER -> 0 - 1

RECURSIVE DecodeInstructions(_, _, _)
DecodeInstructions(code, pc, acc) ==
    IF pc >= Len(code) THEN [ok |-> TRUE, val |-> acc]
    ELSE LET op == code[pc + 1]
             n == OperandBytes(op) IN
         IF n < 0 THEN [ok |-> FALSE, msg |-> <<"Unrecognized opcode {}", op>>]
         ELSE IF pc + 1 + n > Len(code)
         THEN [ok |-> FALSE, msg |-> <<"Unexpected end of stream reading bytecode at index {}", pc>>]
         ELSE DecodeInstructions(code, pc + 1 + n,
                  Append(acc, [pc |-> pc, opcode |-> op,
                               operands |-> SubSeq(code, pc + 2, pc + 1 + n)]))

\* ByteCode::from(code, pool)
ByteCode_from(code) == DecodeInstructions(code, 0, <<>>)

(***************************************************************************)
(* The arms of the match in read_attributes that return to the loop        *)
(* without calling read_attributes again.                                  *)
(***************************************************************************)
\* ensure_length has no cursor; i0 is the cursor its caller holds, carried in the Result
\* a check of the declared length that accepts every length
ensure_length_any(i0, length, expected) == Ok(i0, Nothing)

ensure_length(i0, length, expected) ==
    IF length # expected THEN Fail(i0, <<"Unexpected length {}", length>>) ELSE Ok(i0, Nothing)

\* a best-effort arm: a failed decoder yields an attribute without a value
WrapLenient(r, tag) == Ok(r.ix, [tag |-> tag, value |-> r.val])

\* AttributeData::<tag>(value) of a decoder's result r
Wrap(r, tag) == IF ~r.ok THEN r ELSE Ok(r.ix, [tag |-> tag, value |-> r.val])

\* .map_err(|e| err!(e, ctx))? followed by AttributeData::<tag>(value)
Arm(r, tag, ctx) == Wrap(MapErr(r, ctx), tag)

\* ensure_length(length, expected).map_err(..)?, then the arm's decoder
FixedArm(b, i0, length, expected, lenctx, r, tag, ctx) ==
    LET checked(e) == IF ~e.ok THEN e ELSE Arm(r, tag, ctx)
    IN checked(MapErr(ensure_length(i0, length, expected), lenctx))

EnclosingMethodArm(b, i0, length, i) ==
    LET method(cn, m) ==
            IF ~m.ok THEN m
            ELSE Ok(m.ix, [tag |-> "EnclosingMethod", class_name |-> cn.val, method |-> m.val])
        class_name(cn) ==
            IF ~cn.ok THEN cn
            ELSE method(cn, MapErr(read_cp_nameandtype_opt(b, cn.ix),
                                   <<"method info of EnclosingMethod attribute {}", i>>))
        checked(e) ==
            IF ~e.ok THEN e
            ELSE class_name(MapErr(read_cp_classinfo(b, i0),
                                   <<"class info of EnclosingMethod attribute {}", i>>))
    IN checked(MapErr(ensure_length(i0, length, 4), <<"EnclosingMethod attribute {}", i>>))

\* a marker arm whose length error carries no context frame
MarkerArmBare(i0, length, tag, i) ==
    LET checked(e) == IF ~e.ok THEN e ELSE Ok(i0, [tag |-> tag])
    IN checked(ensure_length(i0, length, 0))

MarkerArm(i0, length, tag, i) ==
    LET checked(e) == IF ~e.ok THEN e ELSE Ok(i0, [tag |-> tag])
    IN checked(MapErr(ensure_length(i0, length, 0), <<tag \o " attribute {}", i>>))

SourceDebugExtensionArm(b, i0, length, i) ==
    LET decoded(s) ==
            IF ~s.ok
            THEN FailCtx(i0 + length, <<"{}", "invalid cesu-8">>,
                         <<"modified utf8 data of SourceDebugExtension attribute {}", i>>)
            ELSE Ok(i0 + length, [tag |-> "SourceDebugExtension", value |-> s.val])
    IN decoded(from_java_cesu8(Slice(b, i0, i0 + length)))

NestedNames == {"Code", "Record"}

TableNames ==
    {"StackMapTable", "Exceptions", "InnerClasses", "LineNumberTable", "LocalVariableTable",
     "LocalVariableTypeTable", "RuntimeVisibleAnnotations", "RuntimeInvisibleAnnotations",
     "RuntimeVisibleParameterAnnotations", "RuntimeInvisibleParameterAnnotations",
     "RuntimeVisibleTypeAnnotations", "RuntimeInvisibleTypeAnnotations", "AnnotationDefault",
     "BootstrapMethods", "MethodParameters", "Module", "ModulePackages", "NestMembers"}

FixedLengthNames ==
    {"ConstantValue", "EnclosingMethod", "Synthetic", "Signature", "SourceFile", "Deprecated",
     "ModuleMainClass", "NestHost"}

LeafNames == TableNames \cup FixedLengthNames \cup {"SourceDebugExtension"}

KnownNames == LeafNames \cup NestedNames

\* the decoder a table arm calls
TableDecoder(name, b, i0) ==
    CASE name = "StackMapTable" -> read_stackmaptable_data(b, i0)
      [] name = "Exceptions" -> read_exceptions_data(b, i0)
      [] name = "InnerClasses" -> read_innerclasses_data(b, i0)
      [] name = "LineNumberTable" -> read_linenumber_data(b, i0)
      [] name = "LocalVariableTable" -> read_localvariable_data(b, i0)
      [] name = "LocalVariableTypeTable" -> read_localvariabletype_data(b, i0)
      [] name \in {"RuntimeVisibleAnnotations", "RuntimeInvisibleAnnotations"} ->
           read_annotation_data(b, i0)
      [] name \in {"RuntimeVisibleParameterAnnotations",
                   "RuntimeInvisibleParameterAnnotations"} ->
           read_parameter_annotation_data(b, i0)
      [] name \in {"RuntimeVisibleTypeAnnotations", "RuntimeInvisibleTypeAnnotations"} ->
           read_type_annotation_data(b, i0)
      [] name = "AnnotationDefault" -> read_annotation_element_value(b, i0)
      [] name = "BootstrapMethods" -> read_bootstrapmethods_data(b, i0)
      [] name = "MethodParameters" -> read_methodparameters_data(b, i0)
      [] name = "Module" -> read_module_data(b, i0)
      [] name = "ModulePackages" -> read_modulepackages_data(b, i0)
      [] name = "NestMembers" -> read_nestmembers_data(b, i0)

\* the arm of `name`, for a name in LeafNames; i is the attribute's index in its list
read_attribute_data(name, b, i0, length, i) ==
    LET own == <<name \o " attribute {}", i>> IN
    CASE name = "ConstantValue" ->
           FixedArm(b, i0, length, 2, own, read_cp_literalconstant(b, i0), name,
                    <<"value field of ConstantValue attribute {}", i>>)
      [] name = "EnclosingMethod" -> EnclosingMethodArm(b, i0, length, i)
      [] name \in {"Synthetic", "Deprecated"} -> MarkerArm(i0, length, name, i)
      [] name = "Signature" ->
           FixedArm(b, i0, length, 2, own, read_cp_utf8(b, i0), name,
                    <<"signature field of Signature attribute {}", i>>)
      [] name = "SourceFile" ->
           FixedArm(b, i0, length, 2, own, read_cp_utf8(b, i0), name,
                    <<"signature field of SourceFile attribute {}", i>>)
      [] name \in {"ModuleMainClass", "NestHost"} ->
           FixedArm(b, i0, length, 2, own, read_cp_classinfo(b, i0), name, own)
      [] name = "SourceDebugExtension" -> SourceDebugExtensionArm(b, i0, length, i)
      [] name \in TableNames -> Arm(TableDecoder(name, b, i0), name, own)

(***************************************************************************)
(* read_exception_table: the loop of read_code_data.                       *)
(***************************************************************************)
RECURSIVE read_exception_table(_, _, _, _, _)
read_exception_table(b, i0, i, count, acc) ==
    LET catch_type(sp, ep, hp, ct) ==
            IF ~ct.ok THEN ct
            ELSE read_exception_table(b, ct.ix, i + 1, count,
                     Append(acc, [start_pc |-> sp.val, end_pc |-> ep.val,
                                  handler_pc |-> hp.val, catch_type |-> ct.val]))
        handler_pc(sp, ep, hp) ==
            IF ~hp.ok THEN hp
            ELSE catch_type(sp, ep, hp,
                     MapErr(read_cp_classinfo_opt(b, hp.ix),
                            <<"catch type of exception table entry {}", i>>))
        end_pc(sp, ep) == IF ~ep.ok THEN ep ELSE handler_pc(sp, ep, read_u2(b, ep.ix))
        start_pc(sp) == IF ~sp.ok THEN sp ELSE end_pc(sp, read_u2(b, sp.ix))
    IN IF i >= count THEN Ok(i0, acc) ELSE start_pc(read_u2(b, i0))

\* a header whose code slice leaves the last code byte out
read_code_header_short(b, i0) ==
    LET code_length(ms, ml, cl) ==
            IF ~cl.ok THEN cl
            ELSE IF Len(b) < cl.ix + cl.val
            THEN Fail(cl.ix, <<"Unexpected end of stream reading code attribute at index {}",
                               cl.ix>>)
            ELSE Ok(cl.ix + cl.val, [max_stack |-> ms.val, max_locals |-> ml.val,
                                     code_from |-> cl.ix,
                                     code |-> Slice(b, cl.ix, cl.ix + cl.val - 1)])
        max_locals(ms, ml) == IF ~ml.ok THEN ml ELSE code_length(ms, ml, read_u4(b, ml.ix))
        max_stack(ms) == IF ~ms.ok THEN ms ELSE max_locals(ms, read_u2(b, ms.ix))
    IN max_stack(read_u2(b, i0))

\* max_stack, max_locals, code_length, the bounds check and the code slice
read_code_header(b, i0) ==
    LET code_length(ms, ml, cl) ==
            IF ~cl.ok THEN cl
            ELSE IF Len(b) < cl.ix + cl.val
            THEN Fail(cl.ix, <<"Unexpected end of stream reading code attribute at index {}",
                               cl.ix>>)
            ELSE Ok(cl.ix + cl.val, [max_stack |-> ms.val, max_locals |-> ml.val,
                                     code_from |-> cl.ix,
                                     code |-> Slice(b, cl.ix, cl.ix + cl.val)])
        max_locals(ms, ml) == IF ~ml.ok THEN ml ELSE code_length(ms, ml, read_u4(b, ml.ix))
        max_stack(ms) == IF ~ms.ok THEN ms ELSE max_locals(ms, read_u2(b, ms.ix))
    IN max_stack(read_u2(b, i0))

\* exception_table_count and the loop over the exception table
read_code_exceptions(b, i0) ==
    LET exceptions(c) == IF ~c.ok THEN c ELSE read_exception_table(b, c.ix, 0, c.val, <<>>)
    IN exceptions(read_u2(b, i0))

\* name and descriptor of one record component, up to the call of read_attributes
read_record_component(b, i0, i) ==
    LET descriptor(nm, ds) ==
            IF ~ds.ok THEN ds
            ELSE IF ~is_field_descriptor(ds.val)
            THEN Fail(ds.ix, <<"Invalid descriptor for entry {}", i>>)
            ELSE Ok(ds.ix, [name |-> nm.val, descriptor |-> ds.val])
        name(nm) ==
            IF ~nm.ok THEN nm
            ELSE IF ~is_unqualified_name(nm.val, FALSE, FALSE)
            THEN Fail(nm.ix, <<"Invalid unqualified name for entry {}", i>>)
            ELSE descriptor(nm, MapErr(read_cp_utf8(b, nm.ix),
                                       <<"descriptor of entry {}", i>>))
    IN name(MapErr(read_cp_utf8(b, i0), <<"name of entry {}", i>>))

(***************************************************************************)
(* The call stack.  The last element of stack is the running call.         *)
(***************************************************************************)
AttributesFrame(at) ==
    [fn |-> "read_attributes", pc |-> "count", entry_ix |-> at, count |-> 0, i |-> 0,
     attributes |-> <<>>, name |-> "", length |-> 0, expected_end_ix |-> 0, data |-> Nothing]

CodeFrame(at) ==
    [fn |-> "read_code_data", pc |-> "header", entry_ix |-> at, header |-> Nothing,
     exception_table |-> <<>>, code_attributes |-> <<>>]

RecordFrame(at) ==
    [fn |-> "read_record_data", pc |-> "count", entry_ix |-> at, count |-> 0, i |-> 0,
     components |-> <<>>, component |-> Nothing]

Top == stack[Len(stack)]

Running(fn, pc) == stack # <<>> /\ Top.fn = fn /\ Top.pc = pc

Depth == Len(stack)

\* the running call goes on with frame f and the cursor at `at`
Continue(f, at) ==
    /\ stack' = [stack EXCEPT ![Len(stack)] = f]
    /\ ix' = at
    /\ ret' = Nothing

\* a return that leaves the call on the stack: the call is run again
ReturnStuck(r) ==
    /\ stack' = stack
    /\ ix' = r.ix
    /\ ret' = r

\* a return that puts the cursor back to where the call began when the call fails
ReturnRewound(r) ==
    /\ stack' = SubSeq(stack, 1, Len(stack) - 1)
    /\ ix' = IF r.ok THEN r.ix ELSE Top.entry_ix
    /\ ret' = r

\* the running call returns r to its caller (`?` on an Err, or the final Ok)
Return(r) ==
    /\ stack' = SubSeq(stack, 1, Len(stack) - 1)
    /\ ix' = r.ix
    /\ ret' = r

\* the running call goes on with frame f and calls `callee`
Call(f, callee) ==
    /\ stack' = Append([stack EXCEPT ![Len(stack)] = f], callee)
    /\ ret' = Nothing
    /\ UNCHANGED ix

Step == steps' = steps + 1

Done == stack = <<>>

\* the top-level call has returned an Err
Failed == Done /\ ~ret.ok

\* the top-level call has returned Ok(attributes)
Succeeded == Done /\ ret.ok

(***************************************************************************)
(* read_attributes.                                                        *)
(***************************************************************************)
\* let count = read_u2(bytes, ix)?
AttributesReadCount ==
    /\ Running("read_attributes", "count")
    /\ LET count(r) ==
               IF ~r.ok THEN Return(r)
               ELSE Continue([Top EXCEPT !.count = r.val, !.pc = "name"], r.ix)
       IN count(read_u2(bytes, ix))
    /\ Step
    /\ UNCHANGED <<bytes, opts, log>>

\* the loop has run count times: Ok(attributes)
AttributesReturn ==
    /\ Running("read_attributes", "name")
    /\ Top.i >= Top.count
    /\ Return(Ok(ix, Top.attributes))
    /\ Step
    /\ UNCHANGED <<bytes, opts, log>>

\* let name = read_cp_utf8(bytes, ix, pool).map_err(..)?
AttributesReadName ==
    /\ Running("read_attributes", "name")
    /\ Top.i < Top.count
    /\ LET name(r) ==
               IF ~r.ok THEN Return(r)
               ELSE Continue([Top EXCEPT !.name = r.val, !.pc = "length"], r.ix)
       IN name(MapErr(read_cp_utf8(bytes, ix), <<"name field of attribute {}", Top.i>>))
    /\ Step
    /\ UNCHANGED <<bytes, opts, log>>

\* history: the input ends inside attribute i at this depth (in its length field or
\* before the end of its declared length) and read_attributes returns r
CutShort(f, r) ==
    [ev |-> "cut", depth |-> Depth, i |-> f.i, name |-> f.name, at |-> ix,
     length |-> f.length, r |-> r]

\* let length = read_u4(bytes, ix)? as usize; let expected_end_ix = *ix + length
AttributesReadLength ==
    /\ Running("read_attributes", "length")
    /\ LET length(r) ==
               IF ~r.ok
               THEN /\ Return(r)
                    /\ log' = Append(log, CutShort(Top, r))
               ELSE /\ Continue([Top EXCEPT !.length = r.val, !.expected_end_ix = r.ix + r.val,
                                            !.pc = "bounds"], r.ix)
                    /\ UNCHANGED log
       IN length(read_u4(bytes, ix))
    /\ Step
    /\ UNCHANGED <<bytes, opts>>

\* a dispatcher without the test before the match
PastEndSkipped(b, expected_end_ix) == FALSE

\* a test that lets a declared end one byte past the end of the input through
PastEndByOne(b, expected_end_ix) == Len(b) + 1 < expected_end_ix

\* the test before the match: whether the declared end lies past the end of the input
PastEnd(b, expected_end_ix) == Len(b) < expected_end_ix

\* if bytes.len() < expected_end_ix { fail!(..) }
AttributesCheckBounds ==
    /\ Running("read_attributes", "bounds")
    /\ LET end(r) ==
               IF PastEnd(bytes, Top.expected_end_ix)
               THEN /\ Return(r)
                    /\ log' = Append(log, CutShort(Top, r))
               ELSE /\ Continue([Top EXCEPT !.pc = "match"], ix)
                    /\ UNCHANGED log
       IN end(Fail(ix, <<"Unexpected end of stream reading attributes at index {}", ix>>))
    /\ Step
    /\ UNCHANGED <<bytes, opts>>

\* history: the match on the name has been entered for attribute i at this depth
Dispatched(f) ==
    [ev |-> "match", depth |-> Depth, i |-> f.i, name |-> f.name, at |-> ix,
     length |-> f.length, r |-> Nothing]

\* history: the arm of attribute i at this depth, entered with the cursor at
\* expected_end_ix - length, has yielded r
Decoded(f, r) ==
    [ev |-> "data", depth |-> Depth, i |-> f.i, name |-> f.name,
     at |-> f.expected_end_ix - f.length, length |-> f.length, r |-> r]

\* an arm that decodes the payload without a nested call of read_attributes
AttributesMatchLeaf ==
    /\ Running("read_attributes", "match")
    /\ Top.name \in LeafNames
    /\ LET data(r) ==
               /\ IF ~r.ok THEN Return(r)
                  ELSE Continue([Top EXCEPT !.data = r.val, !.pc = "check"], r.ix)
               /\ log' = log \o <<Dispatched(Top), Decoded(Top, r)>>
       IN data(read_attribute_data(Top.name, bytes, ix, Top.length, Top.i))
    /\ Step
    /\ UNCHANGED <<bytes, opts>>

\* "Code" => read_code_data(bytes, ix, pool, opts)
AttributesMatchCode ==
    /\ Running("read_attributes", "match")
    /\ Top.name = "Code"
    /\ Call([Top EXCEPT !.pc = "call"], CodeFrame(ix))
    /\ log' = Append(log, Dispatched(Top))
    /\ Step
    /\ UNCHANGED <<bytes, opts>>

\* "Record" => read_record_data(bytes, ix, pool, opts)
AttributesMatchRecord ==
    /\ Running("read_attributes", "match")
    /\ Top.name = "Record"
    /\ Call([Top EXCEPT !.pc = "call"], RecordFrame(ix))
    /\ log' = Append(log, Dispatched(Top))
    /\ Step
    /\ UNCHANGED <<bytes, opts>>

\* read_code_data or read_record_data has returned: .map_err(..)?, AttributeData::Code / Record
AttributesMatchReturned ==
    /\ Running("read_attributes", "call")
    /\ LET data(r) ==
               /\ IF ~r.ok THEN Return(r)
                  ELSE Continue([Top EXCEPT !.data = r.val, !.pc = "check"], r.ix)
               /\ log' = Append(log, Decoded(Top, r))
       IN data(Arm(ret, Top.name, <<Top.name \o " attribute {}", Top.i>>))
    /\ Step
    /\ UNCHANGED <<bytes, opts>>

\* an arm that leaves the last payload byte out of the copy
OtherArmShort(b, i0, length) ==
    Ok(i0 + length, [tag |-> "Other", value |-> Slice(b, i0, i0 + length - 1)])

\* _ => { *ix += length; AttributeData::Other((&bytes[*ix - length .. *ix]).to_vec()) }
OtherArm(b, i0, length) == Ok(i0 + length, [tag |-> "Other", value |-> Slice(b, i0, i0 + length)])

AttributesMatchOther ==
    /\ Running("read_attributes", "match")
    /\ Top.name \notin KnownNames
    /\ LET data(r) ==
               /\ Continue([Top EXCEPT !.data = r.val, !.pc = "check"], r.ix)
               /\ log' = log \o <<Dispatched(Top), Decoded(Top, r)>>
       IN data(OtherArm(bytes, ix, Top.length))
    /\ Step
    /\ UNCHANGED <<bytes, opts>>

\* history: attribute i at this depth has been pushed on its list
Pushed(f) ==
    [ev |-> "push", depth |-> Depth, i |-> f.i, name |-> f.name, at |-> ix,
     length |-> f.length, r |-> Nothing]

\* a dispatcher without the check after the match
LengthMatchesSkipped(expected_end_ix, at) == TRUE

\* a check that also accepts a cursor behind the place the declared length ends at
LengthMatchesOrPast(expected_end_ix, at) == expected_end_ix <= at

\* the check after the match: whether the cursor `at` is where the declared length ends
LengthMatches(expected_end_ix, at) == expected_end_ix = at

\* a loop that puts each attribute in front of the ones it has
AttributesCheckLengthPrepending ==
    /\ Running("read_attributes", "check")
    /\ IF ~LengthMatches(Top.expected_end_ix, ix)
       THEN /\ Return(Fail(ix, <<"Length mismatch when reading attribute {}", Top.i>>))
            /\ UNCHANGED log
       ELSE /\ Continue([Top EXCEPT
                           !.attributes = <<[name |-> Top.name, data |-> Top.data]>> \o @,
                           !.i = @ + 1, !.data = Nothing, !.pc = "name"], ix)
            /\ log' = Append(log, Pushed(Top))
    /\ Step
    /\ UNCHANGED <<bytes, opts>>

\* if expected_end_ix != *ix { fail!(..) }; attributes.push(AttributeInfo { name, data })
AttributesCheckLength ==
    /\ Running("read_attributes", "check")
    /\ IF ~LengthMatches(Top.expected_end_ix, ix)
       THEN /\ Return(Fail(ix, <<"Length mismatch when reading attribute {}", Top.i>>))
            /\ UNCHANGED log
       ELSE /\ Continue([Top EXCEPT
                           !.attributes = Append(@, [name |-> Top.name, data |-> Top.data]),
                           !.i = @ + 1, !.data = Nothing, !.pc = "name"], ix)
            /\ log' = Append(log, Pushed(Top))
    /\ Step
    /\ UNCHANGED <<bytes, opts>>

(***************************************************************************)
(* read_code_data.                                                         *)
(***************************************************************************)
CodeReadHeader ==
    /\ Running("read_code_data", "header")
    /\ LET header(r) ==
               IF ~r.ok THEN Return(r)
               ELSE Continue([Top EXCEPT !.header = r.val, !.pc = "exception_table"], r.ix)
       IN header(read_code_header(bytes, ix))
    /\ Step
    /\ UNCHANGED <<bytes, opts, log>>

CodeReadExceptionTable ==
    /\ Running("read_code_data", "exception_table")
    /\ LET exception_table(r) ==
               IF ~r.ok THEN Return(r)
               ELSE Continue([Top EXCEPT !.exception_table = r.val, !.pc = "attributes"], r.ix)
       IN exception_table(read_code_exceptions(bytes, ix))
    /\ Step
    /\ UNCHANGED <<bytes, opts, log>>

\* read_attributes(bytes, ix, pool, opts)
CodeCallAttributes ==
    /\ Running("read_code_data", "attributes")
    /\ Call([Top EXCEPT !.pc = "call"], AttributesFrame(ix))
    /\ Step
    /\ UNCHANGED <<bytes, opts, log>>

\* a read_code_data that decodes the bytecode before it looks at the Result of the nested
\* read_attributes
CodeAttributesReturnedLate ==
    /\ Running("read_code_data", "call")
    /\ LET code_attributes(r, bc) ==
               IF ~bc.ok
               THEN Return([ok |-> FALSE, ix |-> ix, val |-> Nothing,
                            err |-> ParseError(bc.msg, <<<<"bytecode">>>>)])
               ELSE IF ~r.ok THEN Return(r)
               ELSE Continue([Top EXCEPT !.code_attributes = r.val, !.pc = "bytecode"], r.ix)
       IN code_attributes(MapErr(ret, <<"code attribute">>),
                          IF opts.parse_bytecode THEN ByteCode_from(Top.header.code)
                          ELSE [ok |-> TRUE, val |-> Nothing])
    /\ Step
    /\ UNCHANGED <<bytes, opts, log>>

\* .map_err(|e| err!(e, "code attribute"))?
CodeAttributesReturned ==
    /\ Running("read_code_data", "call")
    /\ LET code_attributes(r) ==
               IF ~r.ok THEN Return(r)
               ELSE Continue([Top EXCEPT !.code_attributes = r.val, !.pc = "bytecode"], r.ix)
       IN code_attributes(MapErr(ret, <<"code attribute">>))
    /\ Step
    /\ UNCHANGED <<bytes, opts, log>>

\* the bytecode, if asked for, and Ok(CodeData { .. })
CodeDecodeAndReturn ==
    /\ Running("read_code_data", "bytecode")
    /\ LET bytecode(bc) ==
               IF ~bc.ok
               THEN Return([ok |-> FALSE, ix |-> ix, val |-> Nothing,
                            err |-> ParseError(bc.msg, <<<<"bytecode">>>>)])
               ELSE Return(Ok(ix, [max_stack |-> Top.header.max_stack,
                                   max_locals |-> Top.header.max_locals,
                                   code |-> Top.header.code,
                                   bytecode |-> IF opts.parse_bytecode THEN Some(bc.val)
                                               ELSE Nothing,
                                   exception_table |-> Top.exception_table,
                                   attributes |-> Top.code_attributes]))
       IN bytecode(IF opts.parse_bytecode THEN ByteCode_from(Top.header.code)
                   ELSE [ok |-> TRUE, val |-> Nothing])
    /\ Step
    /\ UNCHANGED <<bytes, opts, log>>

(***************************************************************************)
(* read_record_data.                                                       *)
(***************************************************************************)
RecordReadCount ==
    /\ Running("read_record_data", "count")
    /\ LET count(r) ==
               IF ~r.ok THEN Return(r)
               ELSE Continue([Top EXCEPT !.count = r.val, !.pc = "component"], r.ix)
       IN count(read_u2(bytes, ix))
    /\ Step
    /\ UNCHANGED <<bytes, opts, log>>

RecordReturn ==
    /\ Running("read_record_data", "component")
    /\ Top.i >= Top.count
    /\ Return(Ok(ix, Top.components))
    /\ Step
    /\ UNCHANGED <<bytes, opts, log>>

\* name and descriptor of component i, then read_attributes(bytes, ix, pool, opts)
RecordReadComponent ==
    /\ Running("read_record_data", "component")
    /\ Top.i < Top.count
    /\ LET component(r) ==
               IF ~r.ok THEN Return(r)
               ELSE /\ stack' = Append([stack EXCEPT ![Len(stack)] =
                                            [Top EXCEPT !.component = r.val, !.pc = "call"]],
                                       AttributesFrame(r.ix))
                    /\ ix' = r.ix
                    /\ ret' = Nothing
       IN component(read_record_component(bytes, ix, Top.i))
    /\ Step
    /\ UNCHANGED <<bytes, opts, log>>

\* .map_err(|e| err!(e, "entry {}", i))?; components.push(..)
RecordAttributesReturned ==
    /\ Running("read_record_data", "call")
    /\ LET attributes(r) ==
               IF ~r.ok THEN Return(r)
               ELSE Continue([Top EXCEPT
                                !.components = Append(@, [name |-> Top.component.name,
                                                          descriptor |-> Top.component.descriptor,
                                                          attributes |-> r.val]),
                                !.i = @ + 1, !.component = Nothing, !.pc = "component"], r.ix)
       IN attributes(MapErr(ret, <<"entry {}", Top.i>>))
    /\ Step
    /\ UNCHANGED <<bytes, opts, log>>


(***************************************************************************)
(* Inputs.  A class file is any byte string; the inputs below are the      *)
(* strings the parser is run on.  They are built the way a class-file      *)
(* writer builds them (big-endian fields, length-framed attributes), both  *)
(* well-formed and malformed, and then cut short at every position.        *)
(***************************************************************************)
U1(n) == <<n>>

U2(n) == <<n \div 256, n % 256>>

U4(n) == <<n \div 16777216, (n \div 65536) % 256, (n \div 256) % 256, n % 256>>

RECURSIVE Concat(_)
Concat(ss) == IF ss = <<>> THEN <<>> ELSE Head(ss) \o Concat(Tail(ss))

\* the pool index of the Utf8 entry `name`
Index(name) == CHOOSE k \in 1..Len(Pool) : Pool[k].kind = "Utf8" /\ Pool[k].str = name

\* attribute_info { name_index, attribute_length, info }
Attribute(name, length, payload) == U2(Index(name)) \o U4(length) \o payload

\* an attribute whose declared length is the length of its payload
Framed(name, payload) == Attribute(name, Len(payload), payload)

\* attributes_count and the attributes
AttributeList(as) == U2(Len(as)) \o Concat(as)

One(a) == AttributeList(<<a>>)

\* every string cut short: all prefixes of the members of S
Prefixes(S) == UNION {{SubSeq(b, 1, k) : k \in 0..Len(b)} : b \in S}

\* sequences of at most n members of S
RECURSIVE SeqsUpTo(_, _)
SeqsUpTo(S, n) ==
    IF n = 0 THEN {<<>>}
    ELSE LET shorter == SeqsUpTo(S, n - 1) IN
         shorter \cup {Append(q, x) : q \in shorter, x \in S}

\* the first pool index holding an entry of `kind`
IndexOfKind(kind) == CHOOSE k \in 1..Len(Pool) : Pool[k].kind = kind /\ \A j \in 1..(k - 1) : Pool[j].kind # kind

IxInteger == IndexOfKind("Integer")
IxFloat == IndexOfKind("Float")
IxLong == IndexOfKind("Long")
IxPlaceholder == IndexOfKind("Placeholder")
IxDouble == IndexOfKind("Double")
IxClass == IndexOfKind("ClassInfo")
IxString == IndexOfKind("String")
IxNameAndType == IndexOfKind("NameAndType")
IxMethodHandle == IndexOfKind("MethodHandle")
IxModule == IndexOfKind("ModuleInfo")
IxPackage == IndexOfKind("PackageInfo")
IxBeyond == Len(Pool) + 50

\* -- framing: lists of attributes whose declared length is right or wrong --------------
FramingSamples ==
    {Framed("Foo", <<170>>),
     Framed("Synthetic", <<>>),
     Framed("SourceFile", U2(Index("x"))),
     Framed("LineNumberTable", U2(0)),
     Attribute("Synthetic", 1, <<0>>),
     Attribute("ConstantValue", 3, <<0, 0, 0>>),
     Attribute("LineNumberTable", 3, U2(0) \o <<0>>),
     Attribute("LineNumberTable", 1, U2(0)),
     Attribute("Foo", 2, <<170>>)}

FramingInputs == {AttributeList(as) : as \in SeqsUpTo(FramingSamples, MaxAttributes)}

\* -- unrecognized names -----------------------------------------------------------------
OtherPayloads == SeqsUpTo({170, 187}, MaxOther)

OtherInputs ==
    {One(Framed("Foo", p)) : p \in OtherPayloads}
    \cup {One(Framed("Foo", p)) \o <<204>> : p \in OtherPayloads}
    \cup {AttributeList(<<Framed("Foo", p), Framed("Foo", <<204>>)>>) : p \in OtherPayloads}

\* -- the fixed-length attributes, declared with every length 0..5 -------------------------
FixedPayloads ==
    {<<0, 0, 0, 0, 0>>,
     U2(IxClass) \o U2(IxNameAndType) \o <<0>>,
     U2(Index("x")) \o <<0, 0, 0>>,
     U2(IxInteger) \o <<0, 0, 0>>}

FixedInputs ==
    {One(Attribute(n, l, p)) : n \in FixedLengthNames, l \in 0..5, p \in FixedPayloads}

\* -- StackMapTable: one frame of every tag ---------------------------------------------------
VerificationSamples ==
    {<<t>> : t \in 0..6}
    \cup {<<7>> \o U2(IxClass), <<7>> \o U2(Index("x")), <<8>> \o U2(9), <<8, 0>>, <<9>>, <<255>>}

FrameBodies(tag) ==
    CASE tag \in 0..63 -> {<<>>}
      [] tag \in 64..127 -> VerificationSamples
      [] tag \in 128..246 -> {<<>>, U2(300)}
      [] tag = 247 -> {U2(300) \o v : v \in VerificationSamples}
      [] tag \in 248..251 -> {U2(300), <<1>>}
      [] tag \in 252..254 ->
           {U2(300) \o Concat([k \in 1..n |-> v]) :
                v \in VerificationSamples, n \in {tag - 252, tag - 251, tag - 250}}
      [] tag = 255 ->
           {U2(300) \o U2(Len(ls)) \o Concat(ls) \o U2(Len(st)) \o Concat(st) :
                ls \in SeqsUpTo({<<1>>, <<7>> \o U2(IxClass), <<9>>}, 1),
                st \in SeqsUpTo({<<4>>, <<8>> \o U2(9), <<9>>}, 1)}

Frames == UNION {{<<tag>> \o body : body \in FrameBodies(tag)} : tag \in 0..255}

StackMapInputs ==
    {One(Framed("StackMapTable", U2(1) \o f)) : f \in Frames}
    \cup {One(Framed("StackMapTable", U2(2) \o <<5>> \o f)) :
             f \in {<<tag>> \o U2(300) : tag \in {70, 200, 248, 249, 250, 251}}}
    \cup {One(Framed("StackMapTable", U2(0)))}

\* -- annotations: one element value of every tag ------------------------------------------------
ConstantIndices ==
    {IxInteger, IxFloat, IxLong, IxDouble, Index("I"), Index("LA;"), Index("V"), Index("x"),
     0, IxPlaceholder, IxBeyond}

\* the tag byte written for a character; "?" stands for a byte that is no tag
Tag(c) ==
    CASE c = "B" -> 66 [] c = "C" -> 67 [] c = "D" -> 68 [] c = "F" -> 70
      [] c = "I" -> 73 [] c = "J" -> 74 [] c = "S" -> 83 [] c = "Z" -> 90
      [] c = "s" -> 115 [] c = "e" -> 101 [] c = "c" -> 99 [] c = "@" -> 64
      [] c = "[" -> 91 [] c = "?" -> 0

ValueSamples ==
    {<<Tag("I")>> \o U2(IxInteger), <<Tag("s")>> \o U2(Index("x")), <<Tag("[")>> \o U2(0),
     <<Tag("@")>> \o U2(Index("I")) \o U2(0), <<Tag("@")>> \o U2(Index("x")) \o U2(0),
     <<Tag("c")>> \o U2(Index("x")), <<Tag("c")>> \o U2(Index("V")),
     <<Tag("e")>> \o U2(Index("LA;")) \o U2(Index("x")), <<Tag("?")>>}

AnnotationSamples ==
    {U2(td) \o U2(Len(es)) \o Concat(es) :
        td \in {Index("I"), Index("LA;"), Index("x"), IxInteger},
        es \in SeqsUpTo({U2(Index("x")) \o v : v \in ValueSamples}, 1)}

ValueBodies(tag) ==
    LET c == CharOf(tag) IN
    CASE c \in BaseTypes \cup {"s", "c"} -> {U2(k) : k \in ConstantIndices} \cup {<<0>>}
      [] c = "e" -> {U2(t) \o U2(n) : t \in {Index("I"), Index("x"), IxInteger},
                                     n \in {Index("x"), IxInteger}}
      [] c = "@" -> AnnotationSamples
      [] c = "[" -> {U2(Len(vs)) \o Concat(vs) : vs \in SeqsUpTo(ValueSamples, MaxArray)}
                    \cup {U2(2) \o <<Tag("I")>> \o U2(IxInteger)}
      [] OTHER -> {<<>>, U2(IxInteger)}

ElementValues == UNION {{<<tag>> \o body : body \in ValueBodies(tag)} : tag \in 0..255}

AnnotationInputs ==
    {One(Framed("AnnotationDefault", v)) : v \in ElementValues}
    \cup {One(Framed(n, U2(Len(as)) \o Concat(as))) :
             n \in {"RuntimeVisibleAnnotations", "RuntimeInvisibleAnnotations"},
             as \in SeqsUpTo(AnnotationSamples, 1)}
    \cup {One(Framed(n, U1(Len(ps)) \o Concat(ps))) :
             n \in {"RuntimeVisibleParameterAnnotations",
                    "RuntimeInvisibleParameterAnnotations"},
             ps \in SeqsUpTo({U2(0), U2(1) \o U2(Index("I")) \o U2(0),
                              U2(1) \o U2(Index("x")) \o U2(0)}, 2)}

\* -- type annotations: every target_type, every path kind -----------------------------------------
TargetInfo(tt) ==
    CASE tt \in {0, 1, 22} -> <<3>>
      [] tt \in {16, 23, 66, 67, 68, 69, 70} -> U2(300)
      [] tt \in {17, 18} -> <<3, 4>>
      [] tt \in {64, 65} -> U2(1) \o U2(1) \o U2(2) \o U2(3)
      [] tt \in 71..75 -> U2(300) \o <<3>>
      [] OTHER -> <<>>

PathSamples == {<<k, 7>> : k \in {0, 1, 2, 3, 4, 255}}

TargetPaths == {U1(Len(ps)) \o Concat(ps) : ps \in SeqsUpTo(PathSamples, MaxPath)}

TypeAnnotations ==
    {<<tt>> \o TargetInfo(tt) \o tp \o U2(Index("I")) \o U2(0) : tt \in 0..255, tp \in TargetPaths}

TypeAnnotationInputs ==
    {One(Framed("RuntimeVisibleTypeAnnotations", U2(1) \o ta)) : ta \in TypeAnnotations}
    \cup {One(Framed("RuntimeInvisibleTypeAnnotations", U2(1) \o ta)) :
             ta \in {<<tt>> \o TargetInfo(tt) \o U1(0) \o U2(Index("x")) \o U2(0) :
                        tt \in {0, 19, 64, 76}}}

\* -- flag sets: no bit, every single bit, some pairs, all bits ----------------------------------------
FlagValues ==
    {0, 65535, ACC_FINAL + ACC_SYNTHETIC, ACC_MANDATED + ACC_PUBLIC, ACC_OPEN + ACC_STATIC_PHASE}
    \cup {2^k : k \in 0..15}

ModulePayload(f, rf, ef, of) ==
    U2(IxModule) \o U2(f) \o U2(0)
    \o U2(1) \o U2(IxModule) \o U2(rf) \o U2(Index("x"))
    \o U2(1) \o U2(IxPackage) \o U2(ef) \o U2(1) \o U2(IxModule)
    \o U2(1) \o U2(IxPackage) \o U2(of) \o U2(0)
    \o U2(1) \o U2(IxClass)
    \o U2(1) \o U2(IxClass) \o U2(1) \o U2(IxClass)

FlagInputs ==
    {One(Framed("MethodParameters", U1(1) \o U2(n) \o U2(f))) :
        n \in {0, Index("x"), Index("LA;")}, f \in FlagValues}
    \cup {One(Framed("MethodParameters", U1(2) \o U2(0) \o U2(ACC_FINAL) \o U2(0) \o U2(f))) :
             f \in FlagValues}
    \cup {One(Framed("Module", ModulePayload(f, 0, 0, 0))) : f \in FlagValues}
    \cup {One(Framed("Module", ModulePayload(0, f, 0, 0))) : f \in FlagValues}
    \cup {One(Framed("Module", ModulePayload(0, 0, f, 0))) : f \in FlagValues}
    \cup {One(Framed("Module", ModulePayload(0, 0, 0, f))) : f \in FlagValues}
    \cup {One(Framed("InnerClasses", U2(1) \o U2(IxClass) \o U2(o) \o U2(n) \o U2(f))) :
             o \in {0, IxClass}, n \in {0, Index("x")}, f \in FlagValues}

\* -- the other tables ------------------------------------------------------------------------------
LocalVariables ==
    {U2(1) \o U2(2) \o U2(n) \o U2(d) \o U2(3) :
        n \in {Index("x"), Index("LA;"), Index("<init>"), Index("I"), IxInteger},
        d \in {Index("I"), Index("LA;"), Index("V"), Index("x"), IxInteger}}

TableInputs ==
    {One(Framed(n, U2(Len(vs)) \o Concat(vs))) :
        n \in {"LocalVariableTable", "LocalVariableTypeTable"},
        vs \in SeqsUpTo(LocalVariables, 1)}
    \cup {One(Framed(n, U2(Len(cs)) \o Concat(cs))) :
             n \in {"Exceptions", "NestMembers", "ModulePackages"},
             cs \in SeqsUpTo({U2(IxClass), U2(IxPackage), U2(0)}, 2)}
    \cup {One(Framed("LineNumberTable", U2(c) \o U2(1) \o U2(2))) : c \in {0, 1, 2, 256}}
    \cup {One(Framed("BootstrapMethods", U2(1) \o U2(m) \o U2(Len(as)) \o Concat(as))) :
             m \in {IxMethodHandle, IxClass},
             as \in SeqsUpTo({U2(IxInteger), U2(IxClass), U2(Index("x"))}, 2)}
    \cup {One(Framed("SourceDebugExtension", p)) :
             p \in {<<>>, <<65>>, <<65, 0, 66>>, <<192, 128>>, <<255>>, <<65, 192>>,
                    <<226, 130, 172>>}}

\* -- Code and Record: attributes that hold attribute lists --------------------------------------------
NestedLists ==
    {AttributeList(<<>>),
     One(Framed("Foo", <<170>>)),
     One(Framed("LineNumberTable", U2(1) \o U2(0) \o U2(7))),
     One(Attribute("Synthetic", 1, <<0>>)),
     One(Attribute("Foo", 9, <<170>>)),
     One(Attribute("LineNumberTable", 3, U2(0) \o <<0>>)),
     AttributeList(<<Framed("Synthetic", <<>>), Framed("StackMapTable", U2(1) \o <<5>>)>>)}

CodeArrays == {<<>>, <<177>>, <<0, 177>>, <<16>>, <<17, 1, 2, 177>>, <<203>>}

ExceptionTables ==
    {U2(0), U2(1) \o U2(0) \o U2(1) \o U2(1) \o U2(0),
     U2(1) \o U2(0) \o U2(1) \o U2(1) \o U2(IxClass),
     U2(1) \o U2(0) \o U2(1) \o U2(1) \o U2(Index("x"))}

CodePayload(code, et, as) == U2(2) \o U2(1) \o U4(Len(code)) \o code \o et \o as

CodePayloads == {CodePayload(c, et, as) : c \in CodeArrays, et \in ExceptionTables, as \in NestedLists}

RecordPayloads ==
    {U2(0)}
    \cup {U2(1) \o U2(n) \o U2(d) \o as :
             n \in {Index("x"), Index("LA;")}, d \in {Index("I"), Index("x")},
             as \in NestedLists}
    \cup {U2(2) \o U2(Index("x")) \o U2(Index("I")) \o as \o U2(Index("x")) \o U2(Index("I")) \o as :
             as \in NestedLists}

NestedInputs ==
    {One(Framed("Code", p)) : p \in CodePayloads}
    \cup {One(Framed("Record", p)) : p \in RecordPayloads}
    \* a declared length that is not what the payload takes
    \cup {One(Attribute("Code", Len(p) + 1, p \o <<0>>)) : p \in {CodePayload(<<177>>, U2(0), as) : as \in NestedLists}}
    \cup {One(Attribute("Code", Len(p) - 1, p)) : p \in {CodePayload(<<177>>, U2(0), as) : as \in NestedLists}}
    \* a code_length that runs past the end of the buffer
    \cup {One(Framed("Code", U2(2) \o U2(1) \o U4(n) \o <<177>>)) : n \in {2, 65536}}
    \* Code in Code, Record in Code, Code in Record
    \cup {One(Framed("Code", CodePayload(<<177>>, U2(0), One(Framed("Code", p))))) :
             p \in {CodePayload(c, U2(0), as) : c \in {<<177>>, <<203>>}, as \in NestedLists}}
    \cup {One(Framed("Code", CodePayload(<<177>>, U2(0), One(Framed("Record", p))))) :
             p \in {U2(1) \o U2(Index("x")) \o U2(Index("I")) \o as : as \in NestedLists}}
    \cup {One(Framed("Record", U2(1) \o U2(Index("x")) \o U2(Index("I")) \o One(Framed("Code", p)))) :
             p \in {CodePayload(c, U2(0), as) : c \in {<<177>>, <<203>>}, as \in NestedLists}}

\* -- inputs cut short at every position -----------------------------------------------------------------
WholeInputs ==
    {AttributeList(<<Framed("Foo", <<170, 187>>), Framed("SourceFile", U2(Index("x")))>>),
     AttributeList(<<Framed("Synthetic", <<>>), Framed("Foo", <<170>>), Framed("Deprecated", <<>>)>>),
     One(Framed("StackMapTable", U2(1) \o <<255>> \o U2(300) \o U2(1) \o <<7>> \o U2(IxClass)
                                 \o U2(1) \o <<8>> \o U2(9))),
     One(Framed("AnnotationDefault", <<Tag("[")>> \o U2(1) \o <<Tag("@")>> \o U2(Index("I")) \o U2(1)
                                     \o U2(Index("x")) \o <<Tag("e")>> \o U2(Index("I")) \o U2(Index("x")))),
     One(Framed("RuntimeVisibleTypeAnnotations", U2(1) \o <<71>> \o TargetInfo(71) \o U1(1) \o <<3, 7>>
                                                 \o U2(Index("I")) \o U2(0))),
     One(Framed("Module", ModulePayload(ACC_OPEN, ACC_TRANSITIVE, ACC_MANDATED, ACC_SYNTHETIC))),
     One(Framed("InnerClasses", U2(1) \o U2(IxClass) \o U2(IxClass) \o U2(Index("x")) \o U2(ACC_PUBLIC))),
     One(Framed("LocalVariableTable", U2(1) \o U2(1) \o U2(2) \o U2(Index("x")) \o U2(Index("I")) \o U2(3))),
     One(Framed("EnclosingMethod", U2(IxClass) \o U2(IxNameAndType))),
     One(Framed("Code", CodePayload(<<0, 177>>, U2(1) \o U2(0) \o U2(1) \o U2(1) \o U2(IxClass),
                                    One(Framed("LineNumberTable", U2(1) \o U2(0) \o U2(7)))))),
     One(Framed("Record", U2(1) \o U2(Index("x")) \o U2(Index("I")) \o One(Framed("Signature", U2(Index("I"))))))}

TruncatedInputs == Prefixes(WholeInputs)

\* a buffer can also hold bytes before the attribute list and a name index that is no Utf8
MiscInputs ==
    {One(U2(k) \o U4(0)) : k \in {0, IxInteger, IxPlaceholder, IxBeyond}}
    \cup {U2(65535), U2(256) \o Framed("Synthetic", <<>>)}
    \cup {One(U2(Index("Foo")) \o U4(n) \o <<170>>) : n \in {2130706432, 16777216, 65536, 256}}

CodeInputs == NestedInputs \cup {b \in TruncatedInputs : Len(b) >= 4 /\ SubSeq(b, 3, 4) = U2(Index("Code"))}

Inputs ==
    FramingInputs \cup OtherInputs \cup FixedInputs \cup StackMapInputs \cup AnnotationInputs
    \cup TypeAnnotationInputs \cup FlagInputs \cup TableInputs \cup NestedInputs
    \cup TruncatedInputs \cup MiscInputs

(***************************************************************************)
(* The parse of one input: the top-level call read_attributes(bytes, &mut  *)
(* 0, pool, opts).  The options only matter to inputs that hold a Code     *)
(* attribute; the others are run with parse_bytecode off.                  *)
(***************************************************************************)
Init ==
    /\ bytes \in Inputs
    /\ opts \in [parse_bytecode : BOOLEAN]
    /\ opts.parse_bytecode => bytes \in CodeInputs
    /\ ix = 0
    /\ stack = <<AttributesFrame(0)>>
    /\ ret = Nothing
    /\ log = <<>>
    /\ steps = 0

Next ==
    \/ AttributesReadCount
    \/ AttributesReturn
    \/ AttributesReadName
    \/ AttributesReadLength
    \/ AttributesCheckBounds
    \/ AttributesMatchLeaf
    \/ AttributesMatchCode
    \/ AttributesMatchRecord
    \/ AttributesMatchReturned
    \/ AttributesMatchOther
    \/ AttributesCheckLength
    \/ CodeReadHeader
    \/ CodeReadExceptionTable
    \/ CodeCallAttributes
    \/ CodeAttributesReturned
    \/ CodeDecodeAndReturn
    \/ RecordReadCount
    \/ RecordReturn
    \/ RecordReadComponent
    \/ RecordAttributesReturned

Spec == Init /\ [][Next]_vars

(***************************************************************************)
(* Properties.  They are stated over the history in `log`: a "match" event *)
(* when the match on the name is entered, a "data" event with the Result   *)
(* of the arm, a "push" event when the AttributeInfo is pushed.            *)
(***************************************************************************)
Events == 1..Len(log)

Data == {k \in Events : log[k].ev = "data"}

\* the data event k is the last word on its attribute: the call at its depth is at
\* the check after the match or has returned an Err, and nothing is pushed after it
NothingPushedAfter(k) ==
    /\ \A j \in Events : j > k => log[j].ev = "data" /\ ~log[j].r.ok
    /\ Len(stack) >= log[k].depth =>
           /\ Len(stack) = log[k].depth
           /\ Top.pc = "check"
           /\ Len(Top.attributes) = log[k].i
    /\ Len(stack) < log[k].depth => ~ret.ok

\* C1: an attribute is pushed only when its arm returned Ok with the cursor at
\* (cursor after the u32 length) + (declared length); when an arm returns Ok
\* with the cursor anywhere else, read_attributes fails with the length
\* mismatch error and pushes no AttributeInfo for it.
ExactLengthConsumed ==
    \A k \in Events :
        /\ log[k].ev = "push" =>
               /\ k > 1
               /\ log[k - 1].ev = "data"
               /\ log[k - 1].depth = log[k].depth /\ log[k - 1].i = log[k].i
               /\ log[k - 1].r.ok
               /\ log[k - 1].r.ix = log[k - 1].at + log[k - 1].length
               /\ log[k].at = log[k - 1].at + log[k - 1].length
        /\ (log[k].ev = "data" /\ log[k].r.ok /\ log[k].r.ix # log[k].at + log[k].length) =>
               /\ NothingPushedAfter(k)
               /\ Len(stack) < log[k].depth =>
                      ret.err.msg = <<"Length mismatch when reading attribute {}", log[k].i>>

\* a list whose first attribute took its declared length and was pushed, and whose
\* second attribute's decoder stopped elsewhere: the call has failed
ExactLengthConsumedWitness ==
    /\ Failed
    /\ \E k \in Events : log[k].ev = "push" /\ log[k].length > 0 /\ log[k].name \in KnownNames
    /\ \E k \in Data : log[k].r.ok /\ log[k].r.ix # log[k].at + log[k].length


\* the error of the test before the match
BoundsError == ~ret.ok /\ ret.err.msg[1] = "Unexpected end of stream reading attributes at index {}"

\* the name of the attribute whose payload starts at cursor `at`
NameAt(at) == Pool[read_u2(bytes, at - 6).val].str

\* C2: the match on the name is entered only with the declared end inside the
\* input; an attribute whose declared end lies past the end of the input fails
\* with the cursor still just after the length field and no arm is entered for
\* it (so no payload byte is read, no pool index resolved, ensure_length not
\* called), whether its name is recognized or not.
BoundsBeforeDispatch ==
    /\ Running("read_attributes", "match") => ix + Top.length <= Len(bytes)
    /\ \A k \in Events : log[k].ev = "match" => log[k].at + log[k].length <= Len(bytes)
    /\ (ret # Nothing /\ BoundsError) =>
           /\ ix = ret.err.msg[2]
           /\ \A k \in Events : log[k].ev \in {"match", "data"} => log[k].at # ret.err.msg[2]

\* a recognized attribute whose declared length runs past the end of the input
BoundsBeforeDispatchWitness ==
    /\ Failed
    /\ BoundsError
    /\ NameAt(ret.err.msg[2]) \in KnownNames
    /\ Len(bytes) > ret.err.msg[2]

\* C3: an attribute with an unrecognized name yields Other holding exactly
\* the bytes [ix, ix + length) and moves the cursor by length; it passes the
\* check after the match and is pushed, also when length is 0.
OtherIsOpaque ==
    \A k \in Data :
        log[k].name \notin KnownNames =>
            /\ log[k].r.ok
            /\ log[k].r.val.tag = "Other"
            /\ Len(log[k].r.val.value) = log[k].length
            /\ \A n \in 1..log[k].length : log[k].r.val.value[n] = bytes[log[k].at + n]
            /\ log[k].r.ix = log[k].at + log[k].length
            /\ k = Len(log) =>
                   /\ Len(stack) = log[k].depth
                   /\ Top.pc = "check"
                   /\ ix = Top.expected_end_ix
            /\ k < Len(log) =>
                   /\ log[k + 1].ev = "push"
                   /\ log[k + 1].i = log[k].i /\ log[k + 1].depth = log[k].depth
                   /\ log[k + 1].at = log[k].at + log[k].length
            /\ (Succeeded /\ log[k].depth = 1) =>
                   ret.val[log[k].i + 1] = [name |-> log[k].name, data |-> log[k].r.val]

\* a list of two unrecognized attributes, one empty and one not, has been read
OtherIsOpaqueWitness ==
    /\ Succeeded
    /\ \E k \in Data : log[k].name \notin KnownNames /\ log[k].length = 0
    /\ \E k \in Data : log[k].name \notin KnownNames /\ log[k].length > 0

\* the payload length the class-file format fixes for an attribute name
FixedLength(name) ==
    CASE name \in {"ConstantValue", "Signature", "SourceFile", "ModuleMainClass", "NestHost"} -> 2
      [] name = "EnclosingMethod" -> 4
      [] name \in {"Synthetic", "Deprecated"} -> 0

\* C4: ConstantValue, Signature, SourceFile, ModuleMainClass and NestHost
\* take a declared length of 2, EnclosingMethod 4, Synthetic and Deprecated 0.
\* With any other declared length the arm fails with the error of
\* ensure_length and the cursor where the payload starts: no payload byte
\* consumed, no pool index resolved.
FixedLengthChecked ==
    \A k \in Data :
        log[k].name \in {"ConstantValue", "Signature", "SourceFile", "ModuleMainClass",
                         "NestHost", "EnclosingMethod", "Synthetic", "Deprecated"} =>
            /\ log[k].r.ok => log[k].length = FixedLength(log[k].name)
            /\ log[k].r.ok => log[k].r.ix = log[k].at + log[k].length
            /\ log[k].length # FixedLength(log[k].name) =>
                   /\ ~log[k].r.ok
                   /\ log[k].r.ix = log[k].at
                   /\ log[k].r.err.msg = <<"Unexpected length {}", log[k].length>>
                   /\ NothingPushedAfter(k)

\* after a SourceFile of length 2 has been pushed, a ConstantValue of length 3
\* whose payload starts with the invalid pool index 0 has failed
FixedLengthCheckedWitness ==
    /\ Failed
    /\ \E k \in Events : log[k].ev = "push" /\ log[k].name = "SourceFile" /\ log[k].length = 2
    /\ \E k \in Data :
           /\ log[k].name = "ConstantValue" /\ log[k].length = 3
           /\ read_u2(bytes, log[k].at).val = 0

\* the context frame c names attribute i of its list: "... attribute {}" with argument i
IdentifiesAttribute(c, i) ==
    /\ Len(c) = 2
    /\ c[2] = i
    /\ Len(c[1]) >= 12
    /\ SubSeq(c[1], Len(c[1]) - 11, Len(c[1])) = "attribute {}"

InContext(e, i) == \E n \in 1..Len(e.ctx) : IdentifiesAttribute(e.ctx[n], i)

\* C5: a Synthetic attribute declared with another length than 0 fails with
\* an error of kind LengthMismatch, the kind of the error of the check after
\* the match, and the error carries a context frame naming that attribute by
\* its index.
SyntheticLengthMismatch ==
    \A k \in Data :
        /\ (log[k].name = "Synthetic" /\ log[k].length # 0) =>
               /\ ~log[k].r.ok
               /\ ErrorKind(log[k].r.err) = "LengthMismatch"
               /\ \E n \in 1..Len(log[k].r.err.ctx) :
                      log[k].r.err.ctx[n] = <<"Synthetic attribute {}", log[k].i>>
               /\ InContext(log[k].r.err, log[k].i)
               /\ log[k].depth = 1 => Failed /\ ret = log[k].r
        /\ (log[k].r.ok /\ log[k].r.ix # log[k].at + log[k].length /\ Len(stack) < log[k].depth) =>
               ErrorKind(ret.err) = "LengthMismatch"

\* a Synthetic attribute declared with length 3 has failed
SyntheticLengthMismatchWitness ==
    /\ Failed
    /\ \E k \in Data : log[k].name = "Synthetic" /\ log[k].length = 3 /\ log[k].i = 0

\* C6: when the input ends inside an attribute, in its length field or before
\* the end of its declared length, read_attributes fails with an error of
\* kind UnexpectedEnd whose context chain names the index of that attribute.
TruncationLocalized ==
    \A k \in Events :
        log[k].ev = "cut" =>
            /\ ~log[k].r.ok
            /\ ErrorKind(log[k].r.err) = "UnexpectedEnd"
            /\ InContext(log[k].r.err, log[k].i)

\* bytes a decoded verification type took: its tag, and a u16 for Object and
\* Uninitialized
VerificationSize(v) == IF v.tag \in {"Object", "Uninitialized"} THEN 3 ELSE 1

RECURSIVE VerificationSizes(_)
VerificationSizes(vs) ==
    IF vs = <<>> THEN 0 ELSE VerificationSize(Head(vs)) + VerificationSizes(Tail(vs))

\* the big-endian u16 at cursor `at`
U16At(at) == bytes[at + 1] * 256 + bytes[at + 2]

\* the first frame of a StackMapTable whose payload starts at `at` has tag byte t;
\* f is the frame decoded for it and end the cursor after it
FrameAsTagged(t, f, at, end) ==
    CASE t \in 0..63 ->
           f = [tag |-> "Same", offset_delta |-> t] /\ end = at + 3
      [] t \in 64..127 ->
           /\ f.tag = "SameLocals1StackItem" /\ f.offset_delta = t - 64
           /\ end = at + 3 + VerificationSize(f.stack)
      [] t = 247 ->
           /\ f.tag = "SameLocals1StackItem" /\ f.offset_delta = U16At(at + 3)
           /\ end = at + 5 + VerificationSize(f.stack)
      [] t \in 248..250 ->
           /\ f = [tag |-> "Chop", offset_delta |-> U16At(at + 3), chop_count |-> 251 - t]
           /\ f.chop_count \in 1..3
           /\ end = at + 5
      [] t = 251 ->
           f = [tag |-> "Same", offset_delta |-> U16At(at + 3)] /\ end = at + 5
      [] t \in 252..254 ->
           /\ f.tag = "Append" /\ f.offset_delta = U16At(at + 3)
           /\ Len(f.locals) = t - 251
           /\ end = at + 5 + VerificationSizes(f.locals)
      [] t = 255 ->
           /\ f.tag = "FullFrame" /\ f.offset_delta = U16At(at + 3)
           /\ Len(f.locals) = U16At(at + 5)
           /\ Len(f.stack) = U16At(at + 7 + VerificationSizes(f.locals))
           /\ end = at + 9 + VerificationSizes(f.locals) + VerificationSizes(f.stack)
      [] OTHER -> FALSE

\* the StackMapTable attributes that hold at least one frame with its tag byte
StackMaps ==
    {k \in Data : /\ log[k].name = "StackMapTable"
                  /\ Len(bytes) >= log[k].at + 3
                  /\ U16At(log[k].at) >= 1}

\* C7: the tag byte of a stack map frame decides the frame: 0..63 Same with
\* the tag as delta and no further byte; 64..127 SameLocals1StackItem with
\* delta tag - 64 and one verification type; 247 the same with a u16 delta;
\* 248..250 Chop with a u16 delta and chop_count 251 - tag; 251 Same with a
\* u16 delta; 252..254 Append with a u16 delta and tag - 251 locals; 255
\* FullFrame with a u16 delta, counted locals and counted stack; 128..246 an
\* error.
FrameTagDecides ==
    \A k \in StackMaps :
        LET t == bytes[log[k].at + 3]
            r == log[k].r
        IN /\ t \in 128..246 =>
                  ~r.ok /\ r.err.msg = <<"Unrecognized discriminant {}", t>>
           /\ r.ok =>
                  /\ Len(r.val.value) = U16At(log[k].at)
                  /\ \E end \in log[k].at..r.ix : FrameAsTagged(t, r.val.value[1], log[k].at, end)
                  /\ U16At(log[k].at) = 1 =>
                         FrameAsTagged(t, r.val.value[1], log[k].at, r.ix)

\* a full frame with one local and one stack item has been decoded
FrameTagDecidesWitness ==
    /\ Succeeded
    /\ \E k \in StackMaps :
           /\ bytes[log[k].at + 3] = 255
           /\ Len(log[k].r.val.value[1].locals) = 1
           /\ Len(log[k].r.val.value[1].stack) = 1

ElementTags == {66, 67, 68, 70, 73, 74, 83, 90, 115, 101, 99, 64, 91}

TargetTypes == {0, 1} \cup 16..23 \cup 64..75

TypeAnnotationNames == {"RuntimeVisibleTypeAnnotations", "RuntimeInvisibleTypeAnnotations"}

\* bytes of the target_info of target_type tt that starts at cursor c
TargetInfoSize(tt, c) ==
    CASE tt \in {0, 1, 22} -> 1
      [] tt \in {16, 17, 18, 23} \cup 66..70 -> 2
      [] tt \in 19..21 -> 0
      [] tt \in {64, 65} -> IF Len(bytes) >= c + 2 THEN 2 + 6 * U16At(c) ELSE 2
      [] tt \in 71..75 -> 3

\* cursor of the path_count of the first type annotation of the attribute at `at`
PathAt(at) == at + 3 + TargetInfoSize(bytes[at + 3], at + 3)

\* the message for the first discriminant of the payload of data event k when that
\* discriminant is outside its legal set, <<>> when it is inside
Illegal(k) ==
    LET n == log[k].name
        a == log[k].at
    IN CASE n = "StackMapTable" /\ Len(bytes) >= a + 3 /\ U16At(a) >= 1
            /\ bytes[a + 3] \in 128..246 ->
              <<"Unrecognized discriminant {}", bytes[a + 3]>>
         [] n = "StackMapTable" /\ Len(bytes) >= a + 4 /\ U16At(a) >= 1
            /\ bytes[a + 3] \in 64..127 /\ bytes[a + 4] > 8 ->
              <<"Unrecognized verification type {}", bytes[a + 4]>>
         [] n = "AnnotationDefault" /\ Len(bytes) >= a + 1 /\ bytes[a + 1] \notin ElementTags ->
              <<"Unrecognized discriminant {}", bytes[a + 1]>>
         [] n \in TypeAnnotationNames /\ Len(bytes) >= a + 3 /\ U16At(a) >= 1
            /\ bytes[a + 3] \notin TargetTypes ->
              <<"Unrecognized target type {}", bytes[a + 3]>>
         [] n \in TypeAnnotationNames /\ Len(bytes) >= a + 3 /\ U16At(a) >= 1
            /\ bytes[a + 3] \in TargetTypes /\ Len(bytes) >= PathAt(a) + 2
            /\ bytes[PathAt(a) + 1] >= 1 /\ bytes[PathAt(a) + 2] > 3 ->
              <<"Unrecognized path kind {}", bytes[PathAt(a) + 2]>>
         [] OTHER -> <<>>

\* C8: a stack-map frame tag in 128..246, a verification-type tag above 8, an
\* annotation element tag outside B C D F I J S Z s e c @ [, a target_type
\* outside 0x00, 0x01, 0x10..0x17, 0x40..0x4B and a type-path kind outside
\* 0..3 each make the arm fail without a value; nothing is pushed for the
\* attribute and the whole call of read_attributes fails with that error.
IllegalDiscriminantIsFatal ==
    \A k \in Data :
        Illegal(k) # <<>> =>
            /\ ~log[k].r.ok
            /\ log[k].r.val = Nothing
            /\ log[k].r.err.msg = Illegal(k)
            /\ NothingPushedAfter(k)
            /\ Done => Failed /\ ret.val = Nothing /\ ret.err.msg = Illegal(k)

\* a type annotation whose first path element has a kind above 3 has failed
IllegalDiscriminantIsFatalWitness ==
    /\ Failed
    /\ \E k \in Data : Illegal(k) # <<>> /\ Illegal(k)[1] = "Unrecognized path kind {}"

\* the element value variant and the pool kind the class-file format gives a tag byte
VariantOf(t) ==
    CASE t = 66 -> "ByteConstant" [] t = 67 -> "CharConstant" [] t = 68 -> "DoubleConstant"
      [] t = 70 -> "FloatConstant" [] t = 73 -> "IntConstant" [] t = 74 -> "LongConstant"
      [] t = 83 -> "ShortConstant" [] t = 90 -> "BooleanConstant"
      [] t = 115 -> "StringConstant" [] t = 101 -> "EnumConstant"
      [] t = 99 -> "ClassLiteral" [] t = 64 -> "AnnotationValue" [] t = 91 -> "ArrayValue"
      [] OTHER -> "none"

PoolKindOf(t) ==
    CASE t \in {66, 67, 73, 83, 90} -> "Integer" [] t = 68 -> "Double" [] t = 70 -> "Float"
      [] t = 74 -> "Long" [] t = 115 -> "Utf8"

PrimitiveOrString == {66, 67, 68, 70, 73, 74, 83, 90, 115}

\* bytes a decoded element value took
RECURSIVE ElementSize(_)
RECURSIVE ElementsSize(_)
RECURSIVE PairsSize(_)
ElementSize(v) ==
    CASE v.tag = "EnumConstant" -> 5
      [] v.tag = "AnnotationValue" -> 5 + PairsSize(v.value.elements)
      [] v.tag = "ArrayValue" -> 3 + ElementsSize(v.value)
      [] OTHER -> 3

ElementsSize(vs) == IF vs = <<>> THEN 0 ELSE ElementSize(Head(vs)) + ElementsSize(Tail(vs))

PairsSize(es) == IF es = <<>> THEN 0 ELSE 2 + ElementSize(Head(es).value) + PairsSize(Tail(es))

\* the Utf8 string at the pool index read at cursor c
Utf8At(c, str) == Pool[U16At(c)].kind = "Utf8" /\ Pool[U16At(c)].str = str

\* v is what the bytes from cursor c on say, read by the tag byte at c
RECURSIVE ElementAsTagged(_, _)
ElementAsTagged(v, c) ==
    LET t == bytes[c + 1] IN
    /\ v.tag = VariantOf(t)
    /\ CASE t \in PrimitiveOrString ->
               /\ Pool[U16At(c + 1)].kind = PoolKindOf(t)
               /\ v.value = Resolved(Pool[U16At(c + 1)])
               /\ ElementSize(v) = 3
          [] t = 101 -> Utf8At(c + 1, v.type_name) /\ Utf8At(c + 3, v.const_name)
          [] t = 99 -> Utf8At(c + 1, v.class_name)
          [] t = 64 ->
               /\ Utf8At(c + 1, v.value.type_descriptor)
               /\ Len(v.value.elements) = U16At(c + 3)
               /\ \A j \in 1..Len(v.value.elements) :
                      LET cj == c + 5 + PairsSize(SubSeq(v.value.elements, 1, j - 1)) IN
                      /\ Utf8At(cj, v.value.elements[j].name)
                      /\ ElementAsTagged(v.value.elements[j].value, cj + 2)
          [] t = 91 ->
               /\ Len(v.value) = U16At(c + 1)
               /\ \A j \in 1..Len(v.value) :
                      ElementAsTagged(v.value[j], c + 3 + ElementsSize(SubSeq(v.value, 1, j - 1)))
          [] OTHER -> FALSE

Defaults == {k \in Data : log[k].name = "AnnotationDefault" /\ log[k].r.ok}

\* C9: an element value is decoded by its tag byte: B C I S Z a pool Integer,
\* D a Double, F a Float, J a Long, s a Utf8 string, e two Utf8 strings
\* (type name, constant name), c one Utf8 string, @ an annotation, [ a u16
\* count and that many element values in input order; the forms B C D F I J
\* S Z s take exactly 3 bytes.
ElementTagDecides ==
    \A k \in Defaults :
        /\ ElementAsTagged(log[k].r.val.value, log[k].at)
        /\ log[k].r.ix = log[k].at + ElementSize(log[k].r.val.value)
        /\ bytes[log[k].at + 1] \in PrimitiveOrString => log[k].r.ix = log[k].at + 3

\* an array of two element values of different forms has been decoded
ElementTagDecidesWitness ==
    /\ Succeeded
    /\ \E k \in Defaults :
           /\ bytes[log[k].at + 1] = 91
           /\ Len(log[k].r.val.value.value) = 2
           /\ log[k].r.val.value.value[1].tag # log[k].r.val.value.value[2].tag

\* the bits the class-file format defines for each strict flag set
ParameterBits == {16, 4096, 32768}

ModuleBits == {32, 4096, 32768}

RequiresBits == {32, 64, 4096, 32768}

ExportsBits == {4096, 32768}

OpensBits == {4096, 32768}

\* the decoded flags fl are the u16 at cursor c, and that u16 has no bit outside S
FlagsKept(fl, c, S) == fl = U16At(c) /\ BitsOf(U16At(c)) \subseteq S

\* bytes the first n exports (opens) entries took
RECURSIVE ExportsSize(_, _)
ExportsSize(es, n) ==
    IF n = 0 THEN 0 ELSE 6 + 2 * Len(es[n].exports_to) + ExportsSize(es, n - 1)

RECURSIVE OpensSize(_, _)
OpensSize(os, n) ==
    IF n = 0 THEN 0 ELSE 6 + 2 * Len(os[n].opens_to) + OpensSize(os, n - 1)

\* every flags field of the module m decoded from cursor a on is the u16 of the input
\* and has no bit outside its set
ModuleFlagsKept(m, a) ==
    LET ex == a + 8 + 6 * Len(m.requires)
        op == ex + 2 + ExportsSize(m.exports, Len(m.exports))
    IN /\ FlagsKept(m.access_flags, a + 2, ModuleBits)
       /\ \A j \in 1..Len(m.requires) :
              FlagsKept(m.requires[j].flags, a + 8 + 6 * (j - 1) + 2, RequiresBits)
       /\ \A j \in 1..Len(m.exports) :
              FlagsKept(m.exports[j].flags, ex + 2 + ExportsSize(m.exports, j - 1) + 2,
                        ExportsBits)
       /\ \A j \in 1..Len(m.opens) :
              FlagsKept(m.opens[j].flags, op + 2 + OpensSize(m.opens, j - 1) + 2, OpensBits)

\* C10: a MethodParameters entry, a Module attribute and a Module requires,
\* exports or opens entry are only produced with the flags of the input and
\* with no bit outside the constants of their set: a u16 with another bit
\* makes the arm fail, the bit is neither dropped nor kept.
StrictFlagsReject ==
    \A k \in Data :
        LET a == log[k].at
            r == log[k].r
        IN /\ (log[k].name = "MethodParameters" /\ r.ok) =>
                  \A j \in 1..Len(r.val.value) :
                      FlagsKept(r.val.value[j].access_flags, a + 1 + 4 * (j - 1) + 2,
                                ParameterBits)
           /\ (log[k].name = "MethodParameters" /\ Len(bytes) >= a + 5 /\ bytes[a + 1] >= 1
                  /\ ~(BitsOf(U16At(a + 3)) \subseteq ParameterBits)) =>
                  /\ ~r.ok
                  /\ r.val = Nothing
                  /\ U16At(a + 1) = 0 => r.err.msg = <<"Invalid access flags found">>
                  /\ NothingPushedAfter(k)
           /\ (log[k].name = "Module" /\ r.ok) => ModuleFlagsKept(r.val.value, a)
           /\ (log[k].name = "Module" /\ Len(bytes) >= a + 4
                  /\ ~(BitsOf(U16At(a + 2)) \subseteq ModuleBits)) =>
                  /\ ~r.ok
                  /\ r.val = Nothing
                  /\ NothingPushedAfter(k)

\* a module whose opens entry has a bit outside its set has failed
StrictFlagsRejectWitness ==
    /\ Failed
    /\ \E k \in Data :
           /\ log[k].name = "Module"
           /\ log[k].r.err.msg = <<"Invalid module opens flags">>
           /\ ~(BitsOf(U16At(log[k].at + 28)) \subseteq OpensBits)

\* the ten bits the class-file format defines for an inner class
InnerClassBits == {1, 2, 4, 8, 16, 512, 1024, 4096, 8192, 16384}

\* the pool index read at cursor c names an entry of `kind`, or is 0 where 0 is allowed
NamesKind(c, kind, optional) ==
    \/ optional /\ U16At(c) = 0
    \/ U16At(c) \in 1..Len(Pool) /\ Pool[U16At(c)].kind = kind

\* the InnerClasses attributes with one entry whose three pool indices resolve
InnerClasses ==
    {k \in Data : /\ log[k].name = "InnerClasses"
                  /\ Len(bytes) >= log[k].at + 10
                  /\ U16At(log[k].at) = 1
                  /\ NamesKind(log[k].at + 2, "ClassInfo", FALSE)
                  /\ NamesKind(log[k].at + 4, "ClassInfo", TRUE)
                  /\ NamesKind(log[k].at + 6, "Utf8", TRUE)}

\* C11: inner-class flags are lenient: whatever the u16, the entry is decoded,
\* and its access_flags hold exactly the bits of the u16 that are among the
\* ten InnerClassAccessFlags constants.
InnerClassFlagsTruncated ==
    \A k \in InnerClasses :
        /\ log[k].r.ok
        /\ log[k].r.ix = log[k].at + 10
        /\ Len(log[k].r.val.value) = 1
        /\ log[k].r.val.value[1].access_flags \in 0..65535
        /\ BitsOf(log[k].r.val.value[1].access_flags)
              = BitsOf(U16At(log[k].at + 8)) \cap InnerClassBits

\* an inner class read from a u16 with all sixteen bits set
InnerClassFlagsTruncatedWitness ==
    /\ Succeeded
    /\ \E k \in InnerClasses :
           /\ U16At(log[k].at + 8) = 65535
           /\ log[k].r.val.value[1].access_flags = 30239

\* the successfully decoded attributes whose entries carry a name and a type string
NamedEntries ==
    {k \in Data : /\ log[k].name \in {"LocalVariableTable", "LocalVariableTypeTable", "Record"}
                  /\ log[k].r.ok}

\* the type string of entry e of attribute k: its signature in a LocalVariableTypeTable
TypeString(k, e) == IF log[k].name = "LocalVariableTypeTable" THEN e.signature ELSE e.descriptor

\* entry j of attribute k is what the bytes say: the strings its two pool indices name
EntryAsWritten(k, j) ==
    LET e == log[k].r.val.value[j] IN
    IF log[k].name = "Record"
    THEN j = 1 => Utf8At(log[k].at + 2, e.name) /\ Utf8At(log[k].at + 4, e.descriptor)
    ELSE /\ Len(log[k].r.val.value) = U16At(log[k].at)
         /\ Utf8At(log[k].at + 10 * j - 4, e.name)
         /\ Utf8At(log[k].at + 10 * j - 2, TypeString(k, e))

\* C12 as stated: every entry of a LocalVariableTable, a LocalVariableTypeTable or a
\* Record that was decoded has a valid unqualified name and a type string (descriptor, or
\* the signature that stands in its place) that is a field descriptor.
EveryTypeStringIsDescriptor ==
    \A k \in NamedEntries :
        \A j \in 1..Len(log[k].r.val.value) :
            /\ is_unqualified_name(log[k].r.val.value[j].name, FALSE, FALSE)
            /\ is_field_descriptor(TypeString(k, log[k].r.val.value[j]))

\* C12, amended: every decoded entry of the three attributes is the one the bytes name and
\* has a valid unqualified name (<init> and <clinit> are not valid); the descriptor of a
\* LocalVariableTable entry and of a Record component is a field descriptor, so an entry
\* violating either fails the decoder; the signature of a LocalVariableTypeTable entry
\* is whatever Utf8 string its index names.
NamesAndDescriptorsValid ==
    \A k \in NamedEntries :
        \A j \in 1..Len(log[k].r.val.value) :
            /\ EntryAsWritten(k, j)
            /\ is_unqualified_name(log[k].r.val.value[j].name, FALSE, FALSE)
            /\ log[k].name # "LocalVariableTypeTable"
                   => is_field_descriptor(log[k].r.val.value[j].descriptor)

NamesAndDescriptorsValidWitness ==
    /\ Succeeded
    /\ \E k \in NamedEntries :
           /\ log[k].name = "LocalVariableTypeTable"
           /\ Len(log[k].r.val.value) = 1
           /\ log[k].r.val.value[1].name = "x"
           /\ log[k].r.val.value[1].signature = "V"

\* every descriptor in a decoded element value, and in the annotations and arrays in it,
\* is of the kind its place asks for
RECURSIVE DescriptorsValidIn(_)
RECURSIVE AnnotationValid(_)
DescriptorsValidIn(v) ==
    CASE v.tag = "EnumConstant" -> is_field_descriptor(v.type_name)
      [] v.tag = "ClassLiteral" -> is_return_descriptor(v.class_name)
      [] v.tag = "AnnotationValue" -> AnnotationValid(v.value)
      [] v.tag = "ArrayValue" -> \A j \in 1..Len(v.value) : DescriptorsValidIn(v.value[j])
      [] OTHER -> TRUE

AnnotationValid(a) ==
    /\ is_field_descriptor(a.type_descriptor)
    /\ \A j \in 1..Len(a.elements) : DescriptorsValidIn(a.elements[j].value)

AnnotationNames == {"RuntimeVisibleAnnotations", "RuntimeInvisibleAnnotations"}

ParameterAnnotationNames ==
    {"RuntimeVisibleParameterAnnotations", "RuntimeInvisibleParameterAnnotations"}

\* the successfully decoded attributes that hold annotations
Annotated ==
    {k \in Data : /\ log[k].name \in AnnotationNames \cup ParameterAnnotationNames
                                        \cup TypeAnnotationNames \cup {"AnnotationDefault"}
                  /\ log[k].r.ok}

\* the annotations of attribute k are the ones the bytes hold: as many as the count says,
\* the first one of the type the first pool index names
AnnotationsAsWritten(k) ==
    LET v == log[k].r.val.value IN
    CASE log[k].name \in AnnotationNames ->
             /\ Len(v) = U16At(log[k].at)
             /\ Len(v) > 0 => Utf8At(log[k].at + 2, v[1].type_descriptor)
      [] log[k].name \in ParameterAnnotationNames ->
             /\ Len(v) = bytes[log[k].at + 1]
             /\ Len(v) > 0 => Len(v[1].annotations) = U16At(log[k].at + 1)
             /\ Len(v) > 0 /\ Len(v[1].annotations) > 0
                    => Utf8At(log[k].at + 3, v[1].annotations[1].type_descriptor)
      [] log[k].name \in TypeAnnotationNames -> Len(v) = U16At(log[k].at)
      [] OTHER -> ElementAsTagged(v, log[k].at)

\* C13: in every successful decoding, every annotation at any depth (of the annotation,
\* parameter annotation and type annotation attributes, of AnnotationDefault, nested as
\* an '@' value or inside an array) has a type_descriptor that is a field descriptor,
\* every EnumConstant a type_name that is a field descriptor, and every ClassLiteral a
\* class_name that is a return descriptor.
AnnotationDescriptorsValid ==
    \A k \in Annotated :
        LET v == log[k].r.val.value IN
        /\ AnnotationsAsWritten(k)
        /\ CASE log[k].name \in AnnotationNames -> \A j \in 1..Len(v) : AnnotationValid(v[j])
             [] log[k].name \in ParameterAnnotationNames ->
                    \A p \in 1..Len(v) :
                        \A j \in 1..Len(v[p].annotations) : AnnotationValid(v[p].annotations[j])
             [] log[k].name \in TypeAnnotationNames ->
                    \A j \in 1..Len(v) : AnnotationValid(v[j].annotation)
             [] OTHER -> DescriptorsValidIn(v)

\* an annotation nested in an element value, holding an enum constant, has been decoded
AnnotationDescriptorsValidWitness ==
    /\ Succeeded
    /\ \E k \in Annotated :
           /\ log[k].name = "AnnotationDefault"
           /\ log[k].r.val.value.tag = "AnnotationValue"
           /\ Len(log[k].r.val.value.value.elements) = 1
           /\ log[k].r.val.value.value.elements[1].value.tag = "EnumConstant"

\* the big-endian u32 at cursor at
U32At(at) == (U16At(at) * 256 + bytes[at + 3]) * 256 + bytes[at + 4]

\* the Code attributes that came back from read_code_data, at any depth
Codes == {k \in Data : log[k].name = "Code"}

\* the error e went through the map_err of the bytecode decoding
FromBytecode(e) == \E f \in 1..Len(e.ctx) : e.ctx[f][1] = "bytecode"

\* C14: for every decoded Code attribute, at any nesting level, bytecode is present exactly
\* when parse_bytecode is on, and code is the code_length bytes that follow the code_length
\* field, whatever the flag; with the flag off no failure of a Code attribute comes from
\* decoding the code bytes.
CodeKeptRaw ==
    \A k \in Codes :
        IF log[k].r.ok
        THEN /\ (log[k].r.val.value.bytecode # Nothing) = opts.parse_bytecode
             /\ Len(log[k].r.val.value.code) = U32At(log[k].at + 4)
             /\ \A p \in 1..Len(log[k].r.val.value.code) :
                    log[k].r.val.value.code[p] = bytes[log[k].at + 8 + p]
        ELSE FromBytecode(log[k].r.err) => opts.parse_bytecode

\* with the flag off, a Code attribute whose code is an unknown opcode has been decoded
CodeKeptRawWitness ==
    /\ Succeeded
    /\ ~opts.parse_bytecode
    /\ \E k \in Codes :
           /\ log[k].r.ok
           /\ log[k].depth > 1
           /\ log[k].r.val.value.code = <<203>>
           /\ log[k].r.val.value.bytecode = Nothing

\* the calls of read_attributes that are past the test of the declared end
PastBoundsTest ==
    {d \in 1..Len(stack) : /\ stack[d].fn = "read_attributes"
                            /\ stack[d].pc \in {"match", "call", "check"}}

\* the calls of read_code_data that hold the code slice
HoldingCode == {d \in 1..Len(stack) : stack[d].fn = "read_code_data" /\ stack[d].pc # "header"}

\* the code range of the Code attribute whose payload starts at `at` ends past the input
CodePastEnd(at) == Len(bytes) >= at + 8 /\ Len(bytes) < at + 8 + U32At(at + 4)

RECURSIVE ElementDepth(_)
RECURSIVE ElementsDepth(_)
RECURSIVE PairsDepth(_)
ElementDepth(v) ==
    CASE v.tag = "AnnotationValue" -> 1 + PairsDepth(v.value.elements)
      [] v.tag = "ArrayValue" -> 1 + ElementsDepth(v.value)
      [] OTHER -> 1

ElementsDepth(vs) ==
    IF vs = <<>> THEN 0
    ELSE LET d == ElementDepth(Head(vs))
             ds == ElementsDepth(Tail(vs)) IN IF d > ds THEN d ELSE ds

PairsDepth(es) ==
    IF es = <<>> THEN 0
    ELSE LET d == ElementDepth(Head(es).value)
             ds == PairsDepth(Tail(es)) IN IF d > ds THEN d ELSE ds

\* the calls on the stack that run a counted loop and have read its count
Looping ==
    {d \in 1..Len(stack) : /\ stack[d].fn \in {"read_attributes", "read_record_data"}
                            /\ stack[d].pc # "count"}

\* every loop has run at most `count` times and every turn has taken at least 6 bytes;
\* every nested call starts behind the start of its caller; the number of steps, the
\* depth of the stack and the depth of a decoded element value are at most linear in
\* the length of the input
Bounded ==
    /\ \A d \in Looping :
           /\ stack[d].i <= stack[d].count
           /\ stack[d].entry_ix + 2 + 6 * stack[d].i <= ix
    /\ \A d \in 2..Len(stack) : stack[d].entry_ix >= stack[d - 1].entry_ix + 2
    /\ 2 * Len(stack) <= Len(bytes) + 2
    /\ steps <= Len(bytes) + 2
    /\ \A k \in Defaults : 3 * ElementDepth(log[k].r.val.value) <= ElementSize(log[k].r.val.value)

\* the running call is at one of the statements of its function, with the Result of the
\* call it made at hand where it waits for one
AtStatement ==
    LET statements ==
            CASE Top.fn = "read_attributes" ->
                     {"count", "name", "length", "bounds", "match", "check"}
              [] Top.fn = "read_code_data" ->
                     {"header", "exception_table", "attributes", "bytecode"}
              [] Top.fn = "read_record_data" -> {"count", "component"}
    IN \/ Top.pc \in statements
       \/ Top.pc = "call" /\ ret # Nothing

\* C16: read_attributes terminates on every input: every loop has run at most the count
\* it read, every nested call (Code, Record, and the element values under '@' and '[')
\* has consumed input before it was made, the nesting depth and the number of steps taken
\* stay within a bound linear in bytes.len(), and a call that has not returned is at a
\* statement that has a next step: no run goes on for ever and none stops short of the
\* return.
Terminates == Bounded /\ (~Done => AtStatement)

\* a parse that went twice through the loop of a nested call has returned
TerminatesWitness ==
    /\ Succeeded
    /\ steps > 10
    /\ \E k \in Data : log[k].depth > 1 /\ log[k].i = 1

\* a call has just returned an Err
ErrorInFlight == ret # Nothing /\ ~ret.ok

\* the step returns an Err from the running call: the error alone, no value beside it
ReturnsError ==
    /\ ret' # Nothing /\ ~ret'.ok
    /\ ret'.val = Nothing
    /\ ret'.err.tag = "ParseError"
    /\ stack' = SubSeq(stack, 1, Len(stack) - 1)

\* the step hands the error in flight on to the caller's caller: same message, the context
\* grown at its outer end, the cursor left alone, and neither a match entered nor an
\* attribute pushed
Unwinds ==
    /\ ReturnsError
    /\ ret'.err.msg = ret.err.msg
    /\ Len(ret'.err.ctx) >= Len(ret.err.ctx)
    /\ SubSeq(ret'.err.ctx, 1, Len(ret.err.ctx)) = ret.err.ctx
    /\ ix' = ix
    /\ \A k \in (Len(log) + 1)..Len(log') : log'[k].ev = "data" /\ ~log'[k].r.ok

\* C17: an error is fatal and leaves no partial result: a call that fails returns the
\* error alone (the attributes it had pushed are not returned), and once a call has
\* returned an error every further step returns that error from the next enclosing call
\* (Code or Record attribute, then the list that holds it) until the top-level call has
\* returned it; no later attribute is attempted.
ErrorsAreFatal ==
    [][/\ (ret' # Nothing /\ ~ret'.ok) => ReturnsError
       /\ ErrorInFlight => Unwinds]_vars

\* a nested list that had pushed an attribute failed, and the parse failed with it
ErrorsAreFatalWitness ==
    /\ Failed
    /\ ret.val = Nothing
    /\ Len(ret.err.ctx) > 1
    /\ \E k \in Events : log[k].ev = "push" /\ log[k].depth > 1

\* C18: the cursor is never moved backward: no step of read_attributes, read_code_data or
\* read_record_data lowers ix, whether it goes on, returns Ok or returns an Err, and every
\* decoder an arm calls hands the cursor back at or behind the place it was entered at.
CursorNeverBack ==
    [][/\ ix' >= ix
       /\ \A k \in (Len(log) + 1)..Len(log') :
              log'[k].ev = "data" => log'[k].r.ix >= log'[k].at]_vars

\* a decoder failed after it had moved the cursor, and the parse failed with the cursor there
CursorNeverBackWitness ==
    /\ Failed
    /\ \E k \in Data : ~log[k].r.ok /\ log[k].r.ix > log[k].at /\ ix = log[k].r.ix

\* the StackMapTable attributes of one frame that holds one verification type right
\* after its tag byte (frame tags 64..127), with the tag byte of the type in the input
SingleItemMaps ==
    {k \in StackMaps : /\ U16At(log[k].at) = 1
                       /\ bytes[log[k].at + 3] \in 64..127
                       /\ Len(bytes) >= log[k].at + 4}

\* the verification types that take one byte, by their tag
PlainVerification(v) ==
    CASE v = 0 -> "Top" [] v = 1 -> "Integer" [] v = 2 -> "Float" [] v = 3 -> "Double"
      [] v = 4 -> "Long" [] v = 5 -> "Null" [] v = 6 -> "UninitializedThis"

\* C19: the tag byte of a verification type decides it: 0 Top, 1 Integer, 2 Float,
\* 3 Double, 4 Long, 5 Null, 6 UninitializedThis, each taking the tag byte alone; 7 Object
\* with the name of the class its u16 pool index names, taking 3 bytes; 8 Uninitialized
\* with its u16 code_offset, taking 3 bytes.
VerificationTagDecides ==
    \A k \in SingleItemMaps :
        LET c == log[k].at + 3
            v == bytes[c + 1]
            r == log[k].r
        IN /\ v \in 0..6 =>
                  /\ r.ok
                  /\ r.val.value[1].stack = [tag |-> PlainVerification(v)]
                  /\ r.ix = c + 1
           /\ v = 7 /\ Len(bytes) >= c + 3 /\ NamesKind(c + 1, "ClassInfo", FALSE) =>
                  /\ r.ok
                  /\ r.val.value[1].stack
                        = [tag |-> "Object", class_name |-> Pool[U16At(c + 1)].name]
                  /\ r.ix = c + 3
           /\ v = 8 /\ Len(bytes) >= c + 3 =>
                  /\ r.ok
                  /\ r.val.value[1].stack
                        = [tag |-> "Uninitialized", code_offset |-> U16At(c + 1)]
                  /\ r.ix = c + 3
           /\ r.ok => v \in 0..8

\* a frame whose one stack item is an Object has been decoded
VerificationTagDecidesWitness ==
    /\ Succeeded
    /\ \E k \in SingleItemMaps :
           /\ bytes[log[k].at + 4] = 7
           /\ log[k].r.val.value[1].stack.tag = "Object"

\* the events logged inside the Code attribute of event k: by the attribute lists nested in it
Inside(k) ==
    LET m == CHOOSE m \in 1..(k - 1) :
                 /\ log[m].ev = "match" /\ log[m].depth = log[k].depth
                 /\ \A j \in (m + 1)..(k - 1) : log[j].depth > log[k].depth
    IN (m + 1)..(k - 1)

\* the cursor behind max_stack, max_locals, code_length, the code bytes, the exception
\* table and the count of the nested list of the Code attribute whose payload starts at `at`
NestedFrom(at) == at + 8 + U32At(at + 4) + 2 + 8 * U16At(at + 8 + U32At(at + 4)) + 2

\* the error e of a Code attribute comes from decoding its own code bytes
OwnBytecode(e) == Len(e.ctx) = 2 /\ e.ctx[1][1] = "bytecode"

\* bytes the decoded instructions took
RECURSIVE InstructionsSize(_)
InstructionsSize(is) ==
    IF is = <<>> THEN 0 ELSE 1 + Len(Head(is).operands) + InstructionsSize(Tail(is))

\* C20: read_code_data reads max_stack, max_locals, code_length and the code bytes, the
\* exception table and the nested attributes, and decodes the bytecode last: every nested
\* attribute lies behind the exception table, a Code attribute whose nested attributes
\* fail reports their error whatever its code bytes are, a bytecode error is reported
\* only when the nested attributes were decoded, and the decoded instructions are those
\* of the code_length code bytes and nothing else.
BytecodeDecodedLast ==
    \A k \in Codes :
        LET r == log[k].r IN
        /\ \A j \in Inside(k) :
               /\ log[j].at >= NestedFrom(log[k].at) + 6
               /\ log[j].ev \in {"data", "cut"} /\ ~log[j].r.ok
                      /\ log[j].depth = log[k].depth + 2 =>
                      /\ ~r.ok
                      /\ r.err.msg = log[j].r.err.msg
                      /\ ~OwnBytecode(r.err)
        /\ ~r.ok /\ OwnBytecode(r.err) =>
               /\ opts.parse_bytecode
               /\ r.ix >= NestedFrom(log[k].at)
               /\ \A j \in Inside(k) : log[j].ev # "cut" /\ (log[j].ev = "data" => log[j].r.ok)
        /\ r.ok /\ opts.parse_bytecode =>
               /\ InstructionsSize(r.val.value.bytecode.value) = U32At(log[k].at + 4)
               /\ \A n \in 1..Len(r.val.value.bytecode.value) :
                      LET pc == InstructionsSize(SubSeq(r.val.value.bytecode.value, 1, n - 1)) IN
                      /\ r.val.value.bytecode.value[n].pc = pc
                      /\ r.val.value.bytecode.value[n].opcode = bytes[log[k].at + 8 + pc + 1]

\* a Code attribute with an unknown opcode and a nested attribute of a wrong length has
\* failed with the error of the nested attribute
BytecodeDecodedLastWitness ==
    /\ Failed
    /\ opts.parse_bytecode
    /\ \E k \in Codes :
           /\ \E j \in Inside(k) :
                  /\ log[j].ev = "data" /\ ~log[j].r.ok
                  /\ ret.err.msg = log[j].r.err.msg
           /\ ~ByteCode_from(Slice(bytes, log[k].at + 8, log[k].at + 8 + U32At(log[k].at + 4))).ok

\* the cursor behind n attributes written from cursor c on, each a name_index (2 bytes),
\* its declared length L (4 bytes) and L payload bytes
RECURSIVE ListEnd(_, _)
ListEnd(c, n) == IF n = 0 THEN c ELSE ListEnd(c + 6 + U32At(c + 2), n - 1)

\* the Ok(attributes) r of a read_attributes entered at cursor s is the list written there:
\* as many entries as the count says, entry i named by the name_index found behind the
\* first i attributes, and the cursor behind the count and all n attributes
ListAsWritten(s, r) ==
    /\ Len(r.val) = U16At(s)
    /\ r.ix = ListEnd(s + 2, U16At(s))
    /\ \A i \in 1..Len(r.val) : Utf8At(ListEnd(s + 2, i - 1), r.val[i].name)

\* C21: when read_attributes succeeds from cursor s on a list with count n and declared
\* lengths L_0..L_(n-1), the cursor ends at s + 2 + the sum of 6 + L_i, and the list
\* returned has n entries in input order, each with the name its own name_index names;
\* for the top-level call, the list nested in a Code attribute and the list of the
\* first component of a Record attribute.
ListReturnedAsWritten ==
    /\ Succeeded => ListAsWritten(0, ret)
    /\ Running("read_code_data", "call") /\ ret # Nothing /\ ret.ok
           => ListAsWritten(NestedFrom(Top.entry_ix) - 2, ret)
    /\ Running("read_record_data", "call") /\ ret # Nothing /\ ret.ok /\ Top.i = 0
           => ListAsWritten(Top.entry_ix + 6, ret)

\* a list of two attributes of different names and lengths has been returned
ListReturnedAsWrittenWitness ==
    /\ Succeeded
    /\ Len(ret.val) = 2
    /\ ret.val[1].name # ret.val[2].name
    /\ U32At(4) # U32At(ListEnd(2, 1) + 2)

\* the Code and Record attributes that were decoded and pushed on their list
Enclosing ==
    {k \in Data : /\ log[k].name \in NestedNames
                  /\ log[k].r.ok
                  /\ k < Len(log)
                  /\ log[k + 1].ev = "push"}

\* C22: an attribute nested in a Code or Record attribute that was accepted lies inside
\* the declared range of that attribute: its name_index starts at or behind the start of
\* the payload and its own declared range ends at or before the declared end; so does the
\* code range of a Code attribute.  (The tests of the nested attribute and of code_length
\* look at the end of the buffer only; it is the check of the enclosing attribute's
\* length that rules an overrun out.)
NestedInsideEnclosing ==
    \A k \in Enclosing :
        /\ \A j \in Inside(k) :
               log[j].ev \in {"match", "data"} =>
                   /\ log[j].at - 6 >= log[k].at
                   /\ log[j].at + log[j].length <= log[k].at + log[k].length
        /\ log[k].name = "Code" =>
               /\ log[k].at + 8 + U32At(log[k].at + 4) <= log[k].at + log[k].length
               /\ Len(log[k].r.val.value.code) <= log[k].length - 8
        /\ log[k].r.ix = log[k].at + log[k].length

\* a Code attribute nested in a Code attribute, with an attribute of its own, was accepted
NestedInsideEnclosingWitness ==
    /\ Succeeded
    /\ \E k \in Enclosing :
           /\ log[k].depth = 1
           /\ \E j \in Inside(k) : j \in Enclosing /\ Inside(j) # {}

====
